---- MODULE Spec2Model ----
(***************************************************************************)
(* Verification model of the GCP path of the AI gateway:                   *)
(*   - the GCP OIDC token rotator (internal/controller/rotators),          *)
(*   - the GCP backend-auth handler (internal/extproc/backendauth),        *)
(*   - the models-list processor (internal/extproc),                       *)
(*   - the GCP Gemini / GCP Anthropic translators                          *)
(*     (internal/extproc/translator),                                      *)
(*   - the AIGatewayRoute controller (internal/controller).                *)
(* Each subsystem has its own specification over its own variables; the    *)
(* variables of the other subsystems stay at their initial value.          *)
(*                                                                         *)
(* Byte strings are TLA+ strings: \o is concatenation and Len the number   *)
(* of bytes.  Times are integer ticks, TicksPerSecond ticks to a second,   *)
(* so that the second-precision of RFC3339 is visible.                     *)
(***************************************************************************)
EXTENDS Integers, Sequences, FiniteSets, TLC

VARIABLES
    \* ---- token rotator ----
    now,        \* time.Now(), in ticks
    secrets,    \* the Kubernetes secret store: <<namespace, name>> -> secret
    rotator,    \* the gcpOIDCTokenRotator fields
    alive,      \* FALSE once the controller process has exited
    rot,        \* the Rotate call in progress / last finished
    prt,        \* the last GetPreRotationTime call
    poll,       \* the last IsExpired call
    \* ---- backend auth handler ----
    credFile,   \* the mounted credential file, a sequence of lines
    handler,    \* the gcpHandler fields
    headerMut,  \* the HeaderMutation Do works on (SetHeaders)
    bodyMut,    \* the BodyMutation handed to Do with it
    doLog,      \* what each Do call on headerMut saw and produced
    \* ---- models-list processor ----
    proc,       \* the Processor returned by NewModelsProcessor
    calls,      \* the phase calls made so far and their results
    \* ---- translators ----
    trIn,       \* the input of the last translator call
    trOut,      \* its output
    \* ---- AIGatewayRoute controller ----
    kube,       \* the objects of the cluster the controller reads and writes
    sync        \* the AIGatewayRoute reconciled and the last Reconcile call

rotVars   == <<now, secrets, rotator, alive, rot, prt, poll>>
authVars  == <<credFile, handler, headerMut, bodyMut, doLog>>
modelVars == <<proc, calls>>
trVars    == <<trIn, trOut>>
ctlVars   == <<kube, sync>>
vars      == <<rotVars, authVars, modelVars, trVars, ctlVars>>

\* What an action of one subsystem leaves alone in the others.
RotFrame   == UNCHANGED <<authVars, modelVars, trVars, ctlVars>>
AuthFrame  == UNCHANGED <<rotVars, modelVars, trVars, ctlVars>>
ModelFrame == UNCHANGED <<rotVars, authVars, trVars, ctlVars>>
TrFrame    == UNCHANGED <<rotVars, authVars, modelVars, ctlVars>>
CtlFrame   == UNCHANGED <<rotVars, authVars, modelVars, trVars>>

(***************************************************************************)
(* Bounds of the model.                                                    *)
(***************************************************************************)
TicksPerSecond == 2     \* sub-second resolution of time.Time in the model
MaxTime        == 9     \* the clock stops here
MaxLifetime    == 4     \* a fresh token lives 1..MaxLifetime ticks
MaxWindow      == 2     \* preRotationWindow is 0..MaxWindow ticks

StartTime == 4          \* time.Now() at construction, in ticks

(***************************************************************************)
(* Decimal rendering, strconv.Itoa / fmt.Sprintf("%d").                    *)
(***************************************************************************)
Digit == <<"0", "1", "2", "3", "4", "5", "6", "7", "8", "9">>

RECURSIVE Itoa(_)
Itoa(n) == IF n < 10 THEN Digit[n + 1]
           ELSE Itoa(n \div 10) \o Digit[(n % 10) + 1]

\* An int64 that may pass 2^31 is kept as two digits in base 2^16: the value
\* is hi * 2^16 + lo. Only values from 0 on are drawn.
Two16 == 65536

Int64(hi, lo) == [hi |-> hi, lo |-> lo]

\* int64(n) and int(n) of a small number.
ToInt64(n) == Int64(n \div Two16, n % Two16)

\* a + b in int64.
Add64(a, b) == Int64(a.hi + b.hi + ((a.lo + b.lo) \div Two16), (a.lo + b.lo) % Two16)

\* uint32(v): the low 32 bits of v. The values drawn keep them below 2^31.
Uint32(v) == (v.hi % Two16) * Two16 + v.lo

\* strconv of an int64, in decimal: the number is split at 10^4.
FormatInt64(v) ==
    LET a == v.hi \div 10000
        b == v.hi % 10000
        q == a * Two16 + ((b * Two16 + v.lo) \div 10000)
        r == (b * Two16 + v.lo) % 10000
    IN  IF q = 0 THEN Itoa(r)
        ELSE Itoa(q) \o Digit[(r \div 1000) + 1] \o Digit[((r \div 100) % 10) + 1]
                 \o Digit[((r \div 10) % 10) + 1] \o Digit[(r % 10) + 1]

(***************************************************************************)
(* Token rotator: package rotators.                                        *)
(***************************************************************************)
ZeroTime == 0           \* time.Time{}: before every time the clock shows

ExpirationTimeAnnotationKey == "rotators/expiration-time"
rotatorSecretNamePrefix     == "ai-eg-bsp"
gcpAccessTokenKey           == "gcpAccessToken"

EmptyMap == [k \in {} |-> TRUE]

\* A timestamp text: what time.Format(time.RFC3339) writes keeps whole seconds.
FormatRFC3339(t) == [layout |-> "RFC3339", sec |-> t \div TicksPerSecond]

ParseRFC3339(s) ==
    IF s.layout = "RFC3339"
    THEN [t |-> s.sec * TicksPerSecond, err |-> "nil"]
    ELSE [t |-> ZeroTime, err |-> "parse"]

GarbageText == [layout |-> "garbage", sec |-> 0]

NoSecret == [exists |-> FALSE, data |-> EmptyMap, annotations |-> EmptyMap]

GetBSPSecretName(bspName) == rotatorSecretNamePrefix \o "-" \o bspName

\* LookupSecret: apiFails is a failure of the API server call other than NotFound.
LookupSecret(store, namespace, name, apiFails) ==
    IF apiFails
    THEN [secret |-> NoSecret, err |-> "failed to get secret"]
    ELSE IF ~store[<<namespace, name>>].exists
         THEN [secret |-> NoSecret, err |-> "NotFound"]
         ELSE [secret |-> store[<<namespace, name>>], err |-> "nil"]

updateExpirationSecretAnnotation(secret, updateTime) ==
    [secret EXCEPT !.annotations =
        (ExpirationTimeAnnotationKey :> FormatRFC3339(updateTime)) @@ @]

GetExpirationSecretAnnotation(secret) ==
    IF ExpirationTimeAnnotationKey \notin DOMAIN secret.annotations
    THEN [t |-> ZeroTime, err |-> "missing annotation"]
    ELSE LET p == ParseRFC3339(secret.annotations[ExpirationTimeAnnotationKey])
         IN  IF p.err # "nil"
             THEN [t |-> ZeroTime, err |-> "failed to parse expiration time annotation"]
             ELSE [t |-> p.t, err |-> "nil"]

IsBufferedTimeExpired(buffer, expirationTime) == (expirationTime - buffer) < now

\* Mutant: the token is written, the expiration annotation is not.
populateAccessTokenOnly(secret, token, tokenKey) ==
    [secret EXCEPT !.data = (tokenKey :> token.Token) @@ @]

populateAccessTokenInSecret(secret, token, tokenKey) ==
    LET s == updateExpirationSecretAnnotation(secret, token.ExpiresAt)
    IN  [s EXCEPT !.data = (tokenKey :> token.Token) @@ @]

\* Mutant: the pre-rotation window is applied a second time, as a buffer.
IsExpiredBuffered(preRotationExpirationTime) ==
    IsBufferedTimeExpired(rotator.preRotationWindow, preRotationExpirationTime)

IsExpired(preRotationExpirationTime) ==
    IsBufferedTimeExpired(0, preRotationExpirationTime)

\* Mutant: the expiration time itself is returned, the window is not taken off.
GetPreRotationTimeNoWindow(apiFails) ==
    LET l == LookupSecret(secrets, rotator.backendSecurityPolicyNamespace,
                          GetBSPSecretName(rotator.backendSecurityPolicyName), apiFails)
    IN  IF l.err # "nil"
        THEN IF l.err = "NotFound"
             THEN [t |-> ZeroTime, err |-> "nil"]
             ELSE [t |-> ZeroTime, err |-> l.err]
        ELSE LET e == GetExpirationSecretAnnotation(l.secret)
             IN  IF e.err # "nil"
                 THEN [t |-> ZeroTime, err |-> e.err]
                 ELSE [t |-> e.t, err |-> "nil"]

\* Mutant: a secret that does not exist yet is an error like any other.
GetPreRotationTimeNotFoundFails(apiFails) ==
    LET l == LookupSecret(secrets, rotator.backendSecurityPolicyNamespace,
                          GetBSPSecretName(rotator.backendSecurityPolicyName), apiFails)
    IN  IF l.err # "nil"
        THEN [t |-> ZeroTime, err |-> l.err]
        ELSE LET e == GetExpirationSecretAnnotation(l.secret)
             IN  IF e.err # "nil"
                 THEN [t |-> ZeroTime, err |-> e.err]
                 ELSE [t |-> e.t - rotator.preRotationWindow, err |-> "nil"]

GetPreRotationTime(apiFails) ==
    LET l == LookupSecret(secrets, rotator.backendSecurityPolicyNamespace,
                          GetBSPSecretName(rotator.backendSecurityPolicyName), apiFails)
    IN  IF l.err # "nil"
        THEN IF l.err = "NotFound"
             THEN [t |-> ZeroTime, err |-> "nil"]
             ELSE [t |-> ZeroTime, err |-> l.err]
        ELSE LET e == GetExpirationSecretAnnotation(l.secret)
             IN  IF e.err # "nil"
                 THEN [t |-> ZeroTime, err |-> e.err]
                 ELSE [t |-> e.t - rotator.preRotationWindow, err |-> "nil"]

(***************************************************************************)
(* Rotate, step by step.  The caller's context may be cancelled between    *)
(* any two steps; a call made under a context observes its cancellation.   *)
(***************************************************************************)
BspName      == "test-policy"
BspNamespace == "default"
SecretKeys   == { <<BspNamespace, GetBSPSecretName(BspName)>>,
                  <<BspNamespace, BspName>>,
                  <<"other", GetBSPSecretName(BspName)>> }
BspKey       == <<rotator.backendSecurityPolicyNamespace,
                  GetBSPSecretName(rotator.backendSecurityPolicyName)>>

Tokens   == {"ya29.A", "ya29.B"}
OldToken == "some-gcp-access-token"
NoToken  == [Token |-> "", ExpiresAt |-> ZeroTime]

IdleCall == [called |-> FALSE]

NoRun == [ran |-> FALSE, ctxDone |-> FALSE, outcome |-> "none"]

IdleRot == [pc |-> "idle", cancelled |-> FALSE, started |-> FALSE, done |-> FALSE,
            sts |-> NoRun, imp |-> NoRun, token |-> NoToken,
            before |-> [k \in SecretKeys |-> NoSecret],
            failed |-> "none", logged |-> "",
            res |-> [t |-> ZeroTime, err |-> "nil"]]

\* The context each step of Rotate runs under.
OIDCCtx        == "caller"         \* r.oidcProvider.GetToken(ctx)
STSCtx         == "caller"         \* r.exchangeJWTForSTSToken(ctx, ...)
ImpersonateCtx == "background"     \* r.impersonateServiceAccount(context.Background(), ...)
StoreCtx       == "caller"         \* LookupSecret(ctx, ...), r.client.Create/Update(ctx, ...)

CtxDone(c) == c = "caller" /\ rot.cancelled

\* The outcomes of a call made under context c.
CallOutcomes(c) == IF CtxDone(c) THEN {"cancelled"} ELSE {"ok", "fail"}

\* Rotate is entered: lines 115-118.
RotateBegin ==
    /\ RotFrame
    /\ alive
    /\ rot.pc = "idle"
    /\ rot' = [IdleRot EXCEPT !.pc = "oidc", !.started = TRUE, !.before = secrets]
    /\ prt' = IdleCall
    /\ poll' = IdleCall
    /\ UNCHANGED <<now, secrets, rotator, alive>>

\* The caller cancels the context it passed to Rotate.
CancelCtx ==
    /\ RotFrame
    /\ alive
    /\ rot.pc \in {"oidc", "sts", "imp", "store"}
    /\ ~rot.cancelled
    /\ rot' = [rot EXCEPT !.cancelled = TRUE]
    /\ UNCHANGED <<now, secrets, rotator, alive, prt, poll>>

\* Mutant: the provider's error is logged and Rotate goes on.
AfterOIDCNoReturn(r, outcome) ==
    IF outcome # "ok"
    THEN [r EXCEPT !.pc = "sts", !.failed = "oidc",
                   !.logged = "failed to get token from oidc provider"]
    ELSE [r EXCEPT !.pc = "sts"]

\* What Rotate does with the result of the OIDC provider: lines 121-125.
AfterOIDC(r, outcome) ==
    IF outcome # "ok"
    THEN [r EXCEPT !.pc = "idle", !.done = TRUE, !.failed = "oidc",
                   !.logged = "failed to get token from oidc provider",
                   !.res = [t |-> ZeroTime, err |-> "oidc: " \o outcome]]
    ELSE [r EXCEPT !.pc = "sts"]

RotateGetOIDCToken ==
    /\ RotFrame
    /\ alive
    /\ rot.pc = "oidc"
    /\ \E outcome \in CallOutcomes(OIDCCtx) : rot' = AfterOIDC(rot, outcome)
    /\ UNCHANGED <<now, secrets, rotator, alive, prt, poll>>

\* What Rotate does with the result of the STS exchange: lines 128-131.
\* log.Fatalf writes the message and exits the process.
AfterSTS(r, outcome) ==
    IF outcome # "ok"
    THEN [r EXCEPT !.pc = "exited", !.failed = "sts",
                   !.logged = "Error exchanging JWT for STS token"]
    ELSE [r EXCEPT !.pc = "imp"]

RotateExchangeSTS ==
    /\ RotFrame
    /\ alive
    /\ rot.pc = "sts"
    /\ \E outcome \in CallOutcomes(STSCtx) :
          LET r == [rot EXCEPT !.sts = [ran |-> TRUE, ctxDone |-> rot.cancelled,
                                        outcome |-> outcome]]
          IN  /\ rot' = AfterSTS(r, outcome)
              /\ alive' = (rot'.pc # "exited")
    /\ UNCHANGED <<now, secrets, rotator, prt, poll>>

\* What Rotate does with the result of the impersonation: lines 134-138.
AfterImpersonate(r, outcome, token) ==
    IF outcome # "ok"
    THEN [r EXCEPT !.pc = "exited", !.failed = "imp",
                   !.logged = "Error exchanging STS token for GCP access token"]
    ELSE [r EXCEPT !.pc = "store", !.token = token]

RotateImpersonate ==
    /\ RotFrame
    /\ alive
    /\ rot.pc = "imp"
    /\ \E outcome \in CallOutcomes(ImpersonateCtx), tok \in Tokens, life \in 1..MaxLifetime :
          LET r == [rot EXCEPT !.imp = [ran |-> TRUE, ctxDone |-> rot.cancelled,
                                        outcome |-> outcome]]
          IN  /\ outcome # "ok" => (tok = CHOOSE x \in Tokens : TRUE) /\ life = 1
              /\ rot' = AfterImpersonate(r, outcome, [Token |-> tok, ExpiresAt |-> now + life])
              /\ alive' = (rot'.pc # "exited")
    /\ UNCHANGED <<now, secrets, rotator, prt, poll>>

\* The new secret Rotate builds when none exists: lines 144-151.
NewSecret == [exists |-> TRUE, data |-> EmptyMap, annotations |-> EmptyMap]

\* Lines 140-172: look the secret up, create or update it, return.
\* The result is [store, r]: the secret store and the Rotate record afterwards.
StoreToken(store, r, key, lookupFails, writeFails) ==
    LET l == LookupSecret(store, key[1], key[2], lookupFails)
        ret(step, msg) == [r EXCEPT !.pc = "idle", !.done = TRUE, !.failed = step,
                                    !.logged = msg,
                                    !.res = [t |-> ZeroTime, err |-> msg]]
        ok == [r EXCEPT !.pc = "idle", !.done = TRUE,
                        !.res = [t |-> r.token.ExpiresAt, err |-> "nil"]]
    IN  IF l.err # "nil"
        THEN IF l.err = "NotFound"
             THEN IF writeFails
                  THEN [store |-> store, r |-> ret("create", "failed to create gcp access token")]
                  ELSE [store |-> [store EXCEPT ![key] =
                                      populateAccessTokenInSecret(NewSecret, r.token, gcpAccessTokenKey)],
                        r |-> ok]
             ELSE [store |-> store, r |-> ret("lookup", "failed to lookup gcp access token secret")]
        ELSE IF writeFails
             THEN [store |-> store, r |-> ret("update", "failed to update gcp access token")]
             ELSE [store |-> [store EXCEPT ![key] =
                                 populateAccessTokenInSecret(l.secret, r.token, gcpAccessTokenKey)],
                   r |-> ok]

RotateStoreSecret ==
    /\ RotFrame
    /\ alive
    /\ rot.pc = "store"
    /\ \E lookupFails \in BOOLEAN, writeFails \in BOOLEAN :
          /\ CtxDone(StoreCtx) => lookupFails
          /\ lookupFails => ~writeFails
          /\ LET out == StoreToken(secrets, rot, BspKey, lookupFails, writeFails)
             IN  /\ secrets' = out.store
                 /\ rot' = out.r
    /\ UNCHANGED <<now, rotator, alive, prt, poll>>

\* The scheduler asks for the pre-rotation time (between Rotate calls).
CallGetPreRotationTime ==
    /\ RotFrame
    /\ alive
    /\ rot.pc = "idle"
    /\ \E apiFails \in BOOLEAN :
          prt' = [called |-> TRUE, apiFails |-> apiFails, seen |-> secrets[BspKey],
                  res |-> GetPreRotationTime(apiFails)]
    /\ poll' = IdleCall
    /\ UNCHANGED <<now, secrets, rotator, alive, rot>>

\* The scheduler polls IsExpired, with the pre-rotation time it got or any other time.
CallIsExpired ==
    /\ RotFrame
    /\ alive
    /\ rot.pc = "idle"
    /\ \E t \in {ZeroTime, now - 1, now, now + 1}
              \cup (IF prt.called THEN {prt.res.t} ELSE {}) :
          poll' = [called |-> TRUE, t |-> t, at |-> now, expired |-> IsExpired(t)]
    /\ UNCHANGED <<now, secrets, rotator, alive, rot, prt>>

\* Time passes.
Tick ==
    /\ RotFrame
    /\ now < MaxTime
    /\ now' = now + 1
    /\ poll' = IdleCall
    /\ UNCHANGED <<secrets, rotator, alive, rot, prt>>

\* The secrets the store may hold for the policy when the rotator is constructed.
InitialSecrets ==
    { NoSecret,
      [exists |-> TRUE, data |-> (gcpAccessTokenKey :> OldToken), annotations |-> EmptyMap],
      [exists |-> TRUE, data |-> (gcpAccessTokenKey :> OldToken),
       annotations |-> (ExpirationTimeAnnotationKey :> GarbageText)] }
    \cup { [exists |-> TRUE,
            data |-> (gcpAccessTokenKey :> OldToken) @@ ("note" :> "kept"),
            annotations |-> (ExpirationTimeAnnotationKey :> FormatRFC3339(t))] :
           t \in {StartTime - TicksPerSecond, StartTime + TicksPerSecond} }

RotNext ==
    \/ RotateBegin
    \/ CancelCtx
    \/ RotateGetOIDCToken
    \/ RotateExchangeSTS
    \/ RotateImpersonate
    \/ RotateStoreSecret
    \/ CallGetPreRotationTime
    \/ CallIsExpired
    \/ Tick

(***************************************************************************)
(* ext_proc values: header mutations and body mutations.                   *)
(***************************************************************************)
\* A corev3.HeaderValue; Value and RawValue are both kept, as Envoy has both.
RawHeader(key, raw) == [Key |-> key, Value |-> "", RawValue |-> raw]
ValHeader(key, val) == [Key |-> key, Value |-> val, RawValue |-> ""]

NilHeaderMutation == [nil |-> TRUE, SetHeaders |-> << >>]
NilBodyMutation   == [nil |-> TRUE, Body |-> ""]

GCPModelPublisherGoogle    == "google"
GCPModelPublisherAnthropic == "anthropic"
GCPMethodGenerateContent   == "generateContent"

buildGCPModelPathSuffix(publisher, model, gcpMethod) ==
    "publishers/" \o publisher \o "/models/" \o model \o ":" \o gcpMethod

\* Mutant: the ":path" header is set, the "content-length" header is not.
buildGCPRequestMutationsPathOnly(path, reqBody) ==
    [hm |-> [nil |-> FALSE, SetHeaders |-> << RawHeader(":path", path) >>],
     bm |-> [nil |-> FALSE, Body |-> reqBody]]

\* The result is [hm, bm]: the header mutation and the body mutation.
buildGCPRequestMutations(path, reqBody) ==
    [hm |-> [nil |-> FALSE,
             SetHeaders |-> << RawHeader(":path", path),
                               RawHeader("content-length", Itoa(Len(reqBody))) >>],
     bm |-> [nil |-> FALSE, Body |-> reqBody]]

(***************************************************************************)
(* GCP backend-auth handler: package backendauth.                          *)
(***************************************************************************)
\* A credential file is its lines; a line is its ":"-separated fields, each
\* with the surrounding white space removed (strings.Split, strings.TrimSpace).
RECURSIVE ScanAccessToken(_, _)
ScanAccessToken(lines, accessToken) ==
    IF lines = << >> THEN accessToken
    ELSE LET splits == Head(lines)
         IN  ScanAccessToken(Tail(lines),
                 IF Len(splits) = 2 /\ splits[1] = "client-secret"
                 THEN splits[2] ELSE accessToken)

newGCPHandler(file, region, projectName) ==
    [gcpAccessToken |-> ScanAccessToken(file, ""),
     region         |-> region,
     projectName    |-> projectName]

\* The index of the first ":path" entry of SetHeaders, 0 when there is none.
FirstPathHeader(hs) ==
    IF \E i \in 1..Len(hs) : hs[i].Key = ":path"
    THEN CHOOSE i \in 1..Len(hs) :
            /\ hs[i].Key = ":path"
            /\ \A j \in 1..(i - 1) : hs[j].Key # ":path"
    ELSE 0

\* Mutant: the prefix stops at the project, without the location.
PrefixPathNoLocation(g) ==
    "https://" \o g.region \o "-aiplatform.googleapis.com/v1/projects/"
               \o g.projectName

PrefixPath(g) ==
    "https://" \o g.region \o "-aiplatform.googleapis.com/v1/projects/"
               \o g.projectName \o "/locations/" \o g.region

\* gcpHandler.Do on the SetHeaders hs of headerMut: the SetHeaders afterwards.
Do(g, hs) ==
    LET i == FirstPathHeader(hs)
        rewritten ==
            IF i = 0 THEN hs
            ELSE [hs EXCEPT ![i] =
                    [@ EXCEPT !.Value = IF Len(hs[i].Value) > 0
                                        THEN PrefixPath(g) \o "/" \o hs[i].Value ELSE @,
                              !.RawValue = IF Len(hs[i].RawValue) > 0
                                           THEN PrefixPath(g) \o "/" \o hs[i].RawValue ELSE @]]
    IN  Append(rewritten, RawHeader("Authorization", "Bearer " \o g.gcpAccessToken))

MaxDoCalls == 3          \* Do calls made on one header mutation

Regions  == {"us-central1", "europe-west4"}
Projects == {"proj-a"}
ModelNames == {"gemini-2.0-flash-001", "claude-3-5-haiku"}

CredFileOf(tok) == << <<"client-id", "gateway">>, <<"client-secret", tok>> >>

\* The contents the mounted file can have: written by the rotator, empty, or
\* with a secret that itself holds a ":".
CredFiles ==
    { CredFileOf(tok) : tok \in Tokens \cup {OldToken} }
    \cup { << >>, << <<"client-secret", "ya29", "C">> >> }

\* The mutations Do is handed: those of the GCP translators, one that carries
\* the path in Value, and one without a path.
RequestMutations ==
    { buildGCPRequestMutations(
          buildGCPModelPathSuffix(GCPModelPublisherGoogle, m, GCPMethodGenerateContent),
          "{\"contents\":[]}") : m \in ModelNames }
    \cup { buildGCPRequestMutations(
               buildGCPModelPathSuffix(GCPModelPublisherAnthropic, m, "rawPredict"),
               "{\"max_tokens\":100}") : m \in ModelNames }
    \cup { [hm |-> [nil |-> FALSE,
                    SetHeaders |-> << ValHeader(":path",
                        "publishers/google/models/gemini-2.0-flash-001:generateContent") >>],
            bm |-> NilBodyMutation],
           [hm |-> [nil |-> FALSE, SetHeaders |-> << RawHeader("content-length", "2") >>],
            bm |-> [nil |-> FALSE, Body |-> "{}"]] }

\* A request reaches the upstream filter with the translator's mutations.
NewRequest ==
    /\ AuthFrame
    /\ \E r \in RequestMutations :
          /\ headerMut' = r.hm.SetHeaders
          /\ bodyMut' = r.bm
    /\ doLog' = << >>
    /\ UNCHANGED <<credFile, handler>>

\* Do is called on the request's header mutation; the body mutation is a
\* parameter Do does not use.
CallDo ==
    /\ AuthFrame
    /\ Len(doLog) < MaxDoCalls
    /\ headerMut' = Do(handler, headerMut)
    /\ bodyMut' = bodyMut
    /\ doLog' = Append(doLog, [file |-> credFile,
                               before |-> headerMut, after |-> headerMut',
                               body |-> bodyMut, bodyAfter |-> bodyMut'])
    /\ UNCHANGED <<credFile, handler>>

\* The rotator replaces the token in the mounted file.
RotateCredFile ==
    /\ AuthFrame
    /\ \E f \in CredFiles \ {credFile} : credFile' = f
    /\ UNCHANGED <<handler, headerMut, bodyMut, doLog>>

AuthNext ==
    \/ NewRequest
    \/ CallDo
    \/ RotateCredFile

(***************************************************************************)
(* Models-list processor: package extproc.                                 *)
(***************************************************************************)
NoErr == [wraps |-> "", msg |-> ""]

errUnexpectedCall == "unexpected method call"

\* fmt.Errorf("%w: " + method, errUnexpectedCall)
UnexpectedCall(method) ==
    [wraps |-> errUnexpectedCall, msg |-> errUnexpectedCall \o ": " \o method]

NilResponse == [kind |-> "nil"]

\* The declared models of the filter configuration.
DeclaredModels ==
    { [Name |-> "openai", OwnedBy |-> "openai", CreatedAt |-> StartTime],
      [Name |-> "aws-bedrock", OwnedBy |-> "aws", CreatedAt |-> StartTime + 1] }

MaxModels == 2           \* models declared in a configuration
MaxCalls  == 3           \* phase calls made on one processor

Configs == UNION { [1..n -> DeclaredModels] : n \in 0..MaxModels }

\* The pass-through processor answers every phase with empty mutations.
PassThroughResponse(phase) == [kind |-> phase, headers |-> << >>, body |-> ""]

PassThroughCall(phase) == [resp |-> PassThroughResponse(phase), err |-> NoErr]

NewModelsProcessor(declaredModels, isUpstreamFilter) ==
    IF isUpstreamFilter
    THEN [kind |-> "passThrough", models |-> [Object |-> "", Data |-> << >>]]
    ELSE [kind |-> "models",
          models |-> [Object |-> "list",
                      Data |-> [i \in 1..Len(declaredModels) |->
                                  [ID      |-> declaredModels[i].Name,
                                   Object  |-> "model",
                                   OwnedBy |-> declaredModels[i].OwnedBy,
                                   Created |-> declaredModels[i].CreatedAt]]]]

\* json.Marshal of openai.Model and openai.ModelList; Created is written as
\* Unix seconds.
MarshalModel(m) ==
    "{\"id\":\"" \o m.ID \o "\",\"created\":" \o Itoa(m.Created \div TicksPerSecond)
        \o ",\"object\":\"" \o m.Object \o "\",\"owned_by\":\"" \o m.OwnedBy \o "\"}"

RECURSIVE MarshalModels(_)
MarshalModels(data) ==
    IF data = << >> THEN ""
    ELSE MarshalModel(Head(data))
           \o (IF Tail(data) = << >> THEN "" ELSE ",") \o MarshalModels(Tail(data))

MarshalModelList(l) ==
    "{\"data\":[" \o MarshalModels(l.Data) \o "],\"object\":\"" \o l.Object \o "\"}"

\* setHeader appends a RawValue header.
setHeader(headers, key, value) == Append(headers, RawHeader(key, value))

\* Mutant: the response is sent without a content-type.
ModelsProcessRequestHeadersUntyped(m) ==
    LET body == MarshalModelList(m.models)
    IN  [resp |-> [kind |-> "immediate", status |-> 200,
                   headers |-> setHeader(<< >>, "content-length", Itoa(Len(body))),
                   body |-> body, grpcStatus |-> 0],
         err |-> NoErr]

\* The methods return [resp, err].
ModelsProcessRequestHeaders(m) ==
    LET body == MarshalModelList(m.models)
        headerMutation == setHeader(setHeader(<< >>, "content-length", Itoa(Len(body))),
                                    "content-type", "application/json")
    IN  [resp |-> [kind |-> "immediate", status |-> 200, headers |-> headerMutation,
                   body |-> body, grpcStatus |-> 0],
         err |-> NoErr]

\* Mutant: the method is not overridden, the embedded passThroughProcessor answers.
ModelsProcessRequestBodyPromoted(m) == PassThroughCall("ProcessRequestBody")

ModelsProcessRequestBody(m) ==
    [resp |-> NilResponse, err |-> UnexpectedCall("ProcessRequestBody")]

ModelsProcessResponseHeaders(m) ==
    [resp |-> NilResponse, err |-> UnexpectedCall("ProcessResponseHeaders")]

ModelsProcessResponseBody(m) ==
    [resp |-> NilResponse, err |-> UnexpectedCall("ProcessResponseBody")]

\* The call of a Processor method goes to the processor's own kind.
Dispatch(p, method) ==
    IF p.kind = "passThrough" THEN PassThroughCall(method)
    ELSE CASE method = "ProcessRequestHeaders"  -> ModelsProcessRequestHeaders(p)
           [] method = "ProcessRequestBody"     -> ModelsProcessRequestBody(p)
           [] method = "ProcessResponseHeaders" -> ModelsProcessResponseHeaders(p)
           [] method = "ProcessResponseBody"    -> ModelsProcessResponseBody(p)

Called(method, r) == [method |-> method, resp |-> r.resp, err |-> r.err]

ProcessRequestHeaders ==
    /\ ModelFrame
    /\ Len(calls) < MaxCalls
    /\ calls' = Append(calls, Called("ProcessRequestHeaders", Dispatch(proc, "ProcessRequestHeaders")))
    /\ UNCHANGED proc

ProcessRequestBody ==
    /\ ModelFrame
    /\ Len(calls) < MaxCalls
    /\ calls' = Append(calls, Called("ProcessRequestBody", Dispatch(proc, "ProcessRequestBody")))
    /\ UNCHANGED proc

ProcessResponseHeaders ==
    /\ ModelFrame
    /\ Len(calls) < MaxCalls
    /\ calls' = Append(calls, Called("ProcessResponseHeaders", Dispatch(proc, "ProcessResponseHeaders")))
    /\ UNCHANGED proc

ProcessResponseBody ==
    /\ ModelFrame
    /\ Len(calls) < MaxCalls
    /\ calls' = Append(calls, Called("ProcessResponseBody", Dispatch(proc, "ProcessResponseBody")))
    /\ UNCHANGED proc

ModelsNext ==
    \/ ProcessRequestHeaders
    \/ ProcessRequestBody
    \/ ProcessResponseHeaders
    \/ ProcessResponseBody

(***************************************************************************)
(* The GCP translators: internal/extproc/translator.                       *)
(***************************************************************************)
\* encoding/json: a string value, with its quotes and backslashes escaped.
RECURSIVE EscapeJSON(_)
EscapeJSON(str) ==
    IF Len(str) = 0 THEN ""
    ELSE IF Len(str) = 1
    THEN (IF str = "\"" THEN "\\\""
          ELSE IF str = "\\" THEN "\\\\"
          ELSE str)
    ELSE LET half == Len(str) \div 2
         IN  EscapeJSON(SubSeq(str, 1, half)) \o EscapeJSON(SubSeq(str, half + 1, Len(str)))

JSONString(str) == "\"" \o EscapeJSON(str) \o "\""

RECURSIVE JoinJSON(_)
JoinJSON(items) ==
    IF Len(items) = 0 THEN ""
    ELSE IF Len(items) = 1 THEN items[1]
    ELSE items[1] \o "," \o JoinJSON(Tail(items))

JSONArray(items)    == "[" \o JoinJSON(items) \o "]"
JSONObject(members) == "{" \o JoinJSON(members) \o "}"
Member(key, value)  == JSONString(key) \o ":" \o value

\* A float64 that is a number of tenths, as encoding/json prints it.
JSONTenths(t) ==
    IF t % 10 = 0 THEN Itoa(t \div 10) ELSE Itoa(t \div 10) \o "." \o Itoa(t % 10)

MimeTypeImageJPEG == "image/jpeg"
MimeTypeImagePNG  == "image/png"
MimeTypeImageGIF  == "image/gif"
MimeTypeImageWEBP == "image/webp"

\* strings.TrimPrefix and strings.Contains.
TrimPrefix(str, prefix) ==
    IF Len(str) >= Len(prefix) /\ SubSeq(str, 1, Len(prefix)) = prefix
    THEN SubSeq(str, Len(prefix) + 1, Len(str))
    ELSE str

Contains(str, substr) ==
    \E i \in 1..(Len(str) - Len(substr) + 1) : SubSeq(str, i, i + Len(substr) - 1) = substr

\* sjson.SetBytes(body, key, value) on a JSON object that has no such key.
\* Mutant: the body is left as it is.
SjsonSetBytesNoop(body, key, value) == body

SjsonSetBytes(body, key, value) ==
    IF body = "{}"
    THEN JSONObject(<< Member(key, JSONString(value)) >>)
    ELSE SubSeq(body, 1, Len(body) - 1) \o "," \o Member(key, JSONString(value)) \o "}"

\* json.Unmarshal of a tool call's arguments into a map, as [ok, args]: the
\* argument strings are objects without nesting, so decoding keeps the text
\* between the braces and drops the white space around the tokens.
RECURSIVE ParseArguments(_)
ParseArguments(str) ==
    IF Len(str) < 2 \/ SubSeq(str, 1, 1) # "{" \/ SubSeq(str, Len(str), Len(str)) # "}"
    THEN [ok |-> FALSE, args |-> ""]
    ELSE IF \E k \in 1..Len(str) : SubSeq(str, k, k) = " "
    THEN LET k == CHOOSE k \in 1..Len(str) : SubSeq(str, k, k) = " "
         IN  ParseArguments(SubSeq(str, 1, k - 1) \o SubSeq(str, k + 1, Len(str)))
    ELSE [ok |-> TRUE, args |-> str]

\* A pointer is << >> when nil and <<v>> when it points at v.
NilPtr == << >>
Ptr(v) == << v >>

\* What a translator method returns: header mutation, body mutation, error.
TrResult(hm, bm, err) == [hm |-> hm, bm |-> bm, err |-> err]
TrError(err) == TrResult(NilHeaderMutation, NilBodyMutation, err)

MaxMessages == 2        \* messages of one chat completion request

MaxToolMessages == 3    \* messages of one conversation with tool calls

\* A message of a request: its role, its text content, the tool calls of an
\* assistant message and the tool call id of a tool message.
Message(type, text) ==
    [Type |-> type, Text |-> text, ToolCalls |-> << >>, ToolCallID |-> "", Parts |-> << >>]
ToolCall(id, name, arguments) == [ID |-> id, Name |-> name, Arguments |-> arguments]

ChatMessages ==
    { Message("user", "hi"),
      Message("user", ""),
      Message("system", "say \"ok\""),
      Message("assistant", "ok"),
      Message("function", "f") }

\* The messages of a conversation in which the assistant called tools.
ToolChatMessages ==
    { Message("user", "hi"),
      Message("system", "be brief"),
      Message("assistant", "ok"),
      [Message("assistant", "") EXCEPT
          !.ToolCalls = << ToolCall("call_1", "get_weather", "{ \"city\": \"Oslo\" }") >>],
      [Message("assistant", "") EXCEPT
          !.ToolCalls = << ToolCall("call_1", "get_weather", "{}"),
                           ToolCall("call_2", "get_time", "{}") >>],
      [Message("assistant", "") EXCEPT
          !.ToolCalls = << ToolCall("call_3", "get_time", "oops") >>],
      [Message("tool", "sunny") EXCEPT !.ToolCallID = "call_1"],
      [Message("tool", "noon") EXCEPT !.ToolCallID = "call_2"] }

MessageLists == UNION { [1..n -> ChatMessages] : n \in 0..MaxMessages }

\* The tool_choice of a request is absent, a string or an openai.ToolChoice.
NoToolChoice == [kind |-> "nil", String |-> "", Type |-> "", Name |-> ""]
StringToolChoice(str) == [kind |-> "string", String |-> str, Type |-> "", Name |-> ""]
NamedToolChoice(type, name) ==
    [kind |-> "ToolChoice", String |-> "", Type |-> type, Name |-> name]

ToolChoices ==
    { NoToolChoice }
    \cup { StringToolChoice(str) : str \in {"auto", "required", "any", "none", "function", "sometimes"} }
    \cup { NamedToolChoice("function", "get_weather"), NamedToolChoice("function", "") }

\* An openai.Tool; Parameters is absent, a JSON object or another JSON value.
Tool(type, name, parameters) ==
    [Type |-> type, Name |-> name, Description |-> "", Parameters |-> parameters]

ToolLists ==
    { << >>,
      << Tool("function", "get_weather", Ptr("{\"city\":{\"type\":\"string\"}}")) >>,
      << Tool("retrieval", "search", NilPtr), Tool("function", "get_time", NilPtr) >>,
      << Tool("function", "get_time", Ptr("[1]")) >> }

\* The openai.ChatCompletionRequest values the translators are given;
\* Temperature is in tenths.
ChatCompletionRequests ==
    [Model : {"claude-3-5-haiku", "gcp.gemini-2.0-flash-001"},
     MaxTokens : {NilPtr, Ptr(7)},
     MaxCompletionTokens : {NilPtr, Ptr(1024)},
     Temperature : {NilPtr, Ptr(7), Ptr(15)},
     Stream : BOOLEAN,
     Messages : MessageLists,
     Tools : {<< >>},
     ToolChoice : {NoToolChoice},
     ParallelToolCalls : {NilPtr}]

MaxPartMessages == 2    \* messages of one conversation with content parts

\* A part of a user message whose content is an array: a text, an image URL
\* or an input audio.
ContentPart(kind, value) == [kind |-> kind, value |-> value]

\* A user message with an array content: Parts is a pointer to the array,
\* nil for a string content.
UserPartsMessage(parts) == [Message("user", "") EXCEPT !.Parts = << parts >>]

PartChatMessages ==
    { Message("user", "hi"),
      Message("assistant", "ok"),
      Message("function", "f"),
      UserPartsMessage(<< ContentPart("text", "listen") >>),
      UserPartsMessage(<< ContentPart("input_audio", "UklGRg==") >>),
      UserPartsMessage(<< ContentPart("text", "listen"), ContentPart("input_audio", "UklGRg==") >>),
      UserPartsMessage(<< ContentPart("image_url", ""), ContentPart("input_audio", "UklGRg=="),
                          ContentPart("text", "after") >>),
      UserPartsMessage(<< ContentPart("image_url", "https://example.com/cat.png"),
                          ContentPart("text", "look") >>),
      UserPartsMessage(<< ContentPart("image_url", "https://example.com/cat") >>),
      UserPartsMessage(<< ContentPart("image_url", "data:image/png;base64,iVBORw==") >>),
      UserPartsMessage(<< ContentPart("image_url", "data:image/png;base64"),
                          ContentPart("input_audio", "UklGRg==") >>),
      UserPartsMessage(<< ContentPart("image_url", ":cat.png"),
                          ContentPart("input_audio", "UklGRg==") >>) }

\* The requests of conversations with tool calls, as the Gemini translator
\* is given them.
ToolConversations ==
    [Model : {"gcp.gemini-2.0-flash-001"},
     MaxTokens : {NilPtr},
     MaxCompletionTokens : {NilPtr},
     Temperature : {NilPtr},
     Stream : {FALSE},
     Messages : UNION { [1..n -> ToolChatMessages] : n \in 1..MaxToolMessages },
     Tools : {<< >>},
     ToolChoice : {NoToolChoice},
     ParallelToolCalls : {NilPtr}]

\* The requests of conversations with content parts, as the Gemini
\* translator is given them.
PartConversations ==
    [Model : {"gcp.gemini-2.0-flash-001"},
     MaxTokens : {NilPtr},
     MaxCompletionTokens : {NilPtr},
     Temperature : {NilPtr},
     Stream : {FALSE},
     Messages : UNION { [1..n -> PartChatMessages] : n \in 1..MaxPartMessages },
     Tools : {<< >>},
     ToolChoice : {NoToolChoice},
     ParallelToolCalls : {NilPtr}]

\* The requests that offer tools, as the Anthropic translator is given them.
ToolRequests ==
    [Model : {"claude-3-5-haiku"},
     MaxTokens : {NilPtr},
     MaxCompletionTokens : {NilPtr},
     Temperature : {NilPtr, Ptr(12)},
     Stream : BOOLEAN,
     Messages : { << Message("user", "hi") >>, << Message("function", "f") >> },
     Tools : ToolLists,
     ToolChoice : ToolChoices,
     ParallelToolCalls : {NilPtr, Ptr(TRUE), Ptr(FALSE)}]

\* ---- OpenAI -> GCP Anthropic ----
anthropicVersionKey   == "anthropic_version"
anthropicVersionValue == "vertex-2023-10-16"
gcpBackendError       == "GCPBackendError"
defaultMaxTokens      == 100
errStreamingNotSupported == "streaming is not yet supported for GCP Anthropic translation"

\* fmt's %.2f of a temperature given in tenths.
FormatFloat2(t) == Itoa(t \div 10) \o "." \o Itoa(t % 10) \o "0"

\* Mutant: the bound is 2.0.
validateTemperatureForAnthropicLax(temp) ==
    IF temp # NilPtr /\ temp[1] > 20
    THEN "temperature " \o FormatFloat2(temp[1])
             \o " is not supported by Anthropic (must be between 0.0 and 1.0)"
    ELSE "nil"

validateTemperatureForAnthropic(temp) ==
    IF temp # NilPtr /\ temp[1] > 10
    THEN "temperature " \o FormatFloat2(temp[1])
             \o " is not supported by Anthropic (must be between 0.0 and 1.0)"
    ELSE "nil"

\* An anthropic.ToolChoiceUnionParam: Of names the variant that is set, Type
\* is the variant's constant as the code sets it ("" when left to its default).
ZeroToolChoice == [Of |-> "", Type |-> "", Name |-> "", DisableParallelToolUse |-> NilPtr]

\* The tools loop: the result is [tools, err].
RECURSIVE translateTools(_, _)
translateTools(openAITools, anthropicTools) ==
    IF Len(openAITools) = 0 THEN [tools |-> anthropicTools, err |-> "nil"]
    ELSE LET openAITool == Head(openAITools)
             isObject == SubSeq(openAITool.Parameters[1], 1, 1) = "{"
         IN  IF openAITool.Type # "function"
             THEN translateTools(Tail(openAITools), anthropicTools)
             ELSE IF openAITool.Parameters # NilPtr /\ ~isObject
             THEN [tools |-> anthropicTools,
                   err |-> "tool parameters for '" \o openAITool.Name
                               \o "' are not a valid JSON object"]
             ELSE translateTools(Tail(openAITools),
                      Append(anthropicTools,
                             [Name |-> openAITool.Name,
                              Description |-> openAITool.Description,
                              Properties |-> openAITool.Parameters]))

\* The result is [tools, toolChoice, err].
translateOpenAItoAnthropicTools(openAITools, openAIToolChoice, parallelToolCalls) ==
    LET t == translateTools(openAITools, << >>)
        disableParallelToolUse ==
            IF parallelToolCalls # NilPtr THEN Ptr(~parallelToolCalls[1]) ELSE Ptr(FALSE)
        choice == openAIToolChoice
        toolChoice ==
            IF choice.kind = "string" /\ choice.String = "auto"
            THEN [ZeroToolChoice EXCEPT !.Of = "auto",
                                        !.DisableParallelToolUse = disableParallelToolUse]
            ELSE IF choice.kind = "string" /\ choice.String \in {"required", "any"}
            THEN [ZeroToolChoice EXCEPT !.Of = "any",
                                        !.DisableParallelToolUse = disableParallelToolUse]
            ELSE IF choice.kind = "string" /\ choice.String = "none"
            THEN [ZeroToolChoice EXCEPT !.Of = "none"]
            ELSE IF choice.kind = "string" /\ choice.String = "function"
            THEN [ZeroToolChoice EXCEPT !.Of = "tool", !.Name = choice.String,
                                        !.DisableParallelToolUse = disableParallelToolUse]
            ELSE IF choice.kind = "ToolChoice" /\ choice.Type = "function" /\ choice.Name # ""
            THEN [ZeroToolChoice EXCEPT !.Of = "tool", !.Type = choice.Type,
                                        !.Name = choice.Name,
                                        !.DisableParallelToolUse = disableParallelToolUse]
            ELSE ZeroToolChoice
    IN  IF Len(openAITools) = 0
        THEN [tools |-> << >>, toolChoice |-> ZeroToolChoice, err |-> "nil"]
        ELSE IF t.err # "nil"
        THEN [tools |-> t.tools, toolChoice |-> ZeroToolChoice, err |-> t.err]
        ELSE [tools |-> t.tools, toolChoice |-> toolChoice,
              err |-> IF choice.kind = "string"
                         /\ choice.String \notin {"auto", "required", "any", "none", "function"}
                      THEN "invalid tool choice type '" \o choice.String \o "'"
                      ELSE "nil"]

\* An anthropic.ContentBlockParamUnion: a text block, a tool_use block or a
\* tool_result block.
ContentBlock(type, text) ==
    [type |-> type, text |-> text, id |-> "", name |-> "", input |-> "", content |-> << >>]

\* String content: one text block, none for the empty string.
openAIToAnthropicContent(content) ==
    IF content = "" THEN << >> ELSE << ContentBlock("text", content) >>

\* The result is [msg, err]: the text block first, then one tool_use block
\* per tool call, blocks so far in contentBlocks.
RECURSIVE openAIMessageToAnthropicMessageRoleAssistant(_, _, _)
openAIMessageToAnthropicMessageRoleAssistant(openAiMessage, i, contentBlocks) ==
    IF i > Len(openAiMessage.ToolCalls)
    THEN [msg |-> [Role |-> "assistant", Content |-> contentBlocks], err |-> "nil"]
    ELSE LET toolCall == openAiMessage.ToolCalls[i]
             input == ParseArguments(toolCall.Arguments)
         IN  IF ~input.ok
             THEN [msg |-> [Role |-> "", Content |-> << >>],
                   err |-> "failed to unmarshal tool call arguments"]
             ELSE openAIMessageToAnthropicMessageRoleAssistant(openAiMessage, i + 1,
                      Append(contentBlocks,
                             [ContentBlock("tool_use", "") EXCEPT
                                 !.id = toolCall.ID, !.name = toolCall.Name,
                                 !.input = input.args]))

\* Mutant: a tool message is dropped.
toolResultMessageDropped(toolMsg) == << >>

\* The user message made of a tool message, as a sequence of one message.
toolResultMessage(toolMsg) ==
    << [Role |-> "user",
        Content |-> << [ContentBlock("tool_result", "") EXCEPT
                           !.id = toolMsg.ToolCallID,
                           !.content = openAIToAnthropicContent(toolMsg.Text)] >>] >>

\* The result is [messages, system, err]; the loop stops at the first error.
RECURSIVE openAIToAnthropicMessages(_, _, _)
openAIToAnthropicMessages(openAIMsgs, anthropicMessages, systemBlocks) ==
    IF Len(openAIMsgs) = 0
    THEN [messages |-> anthropicMessages, system |-> systemBlocks, err |-> "nil"]
    ELSE LET msg == Head(openAIMsgs)
             a == openAIMessageToAnthropicMessageRoleAssistant(msg, 1,
                      openAIToAnthropicContent(msg.Text))
         IN  IF msg.Type \in {"system", "developer"}
             THEN openAIToAnthropicMessages(Tail(openAIMsgs), anthropicMessages,
                      Append(systemBlocks, [type |-> "text", text |-> msg.Text]))
             ELSE IF msg.Type = "user"
             THEN openAIToAnthropicMessages(Tail(openAIMsgs),
                      Append(anthropicMessages,
                             [Role |-> "user", Content |-> openAIToAnthropicContent(msg.Text)]),
                      systemBlocks)
             ELSE IF msg.Type = "assistant"
             THEN IF a.err # "nil"
                  THEN [messages |-> anthropicMessages, system |-> systemBlocks, err |-> a.err]
                  ELSE openAIToAnthropicMessages(Tail(openAIMsgs),
                           Append(anthropicMessages, a.msg), systemBlocks)
             ELSE IF msg.Type = "tool"
             THEN openAIToAnthropicMessages(Tail(openAIMsgs),
                      anthropicMessages \o toolResultMessage(msg), systemBlocks)
             ELSE [messages |-> anthropicMessages, system |-> systemBlocks,
                   err |-> "unsupported OpenAI role type: " \o msg.Type]

\* Mutant: max_tokens is looked at before max_completion_tokens.
maxTokensOfLegacyFirst(openAIReq) ==
    IF openAIReq.MaxTokens # NilPtr THEN openAIReq.MaxTokens[1]
    ELSE IF openAIReq.MaxCompletionTokens # NilPtr THEN openAIReq.MaxCompletionTokens[1]
    ELSE defaultMaxTokens

maxTokensOf(openAIReq) ==
    IF openAIReq.MaxCompletionTokens # NilPtr THEN openAIReq.MaxCompletionTokens[1]
    ELSE IF openAIReq.MaxTokens # NilPtr THEN openAIReq.MaxTokens[1]
    ELSE defaultMaxTokens

\* The result is [params, err].  The requests carry no top_p and no stop
\* sequences; Model is the field of MessageNewParams the function leaves at
\* its zero value.
buildAnthropicParams(openAIReq) ==
    LET maxTokens == maxTokensOf(openAIReq)
        m == openAIToAnthropicMessages(openAIReq.Messages, << >>, << >>)
        t == translateOpenAItoAnthropicTools(openAIReq.Tools, openAIReq.ToolChoice,
                                             openAIReq.ParallelToolCalls)
        params == [Messages |-> m.messages, MaxTokens |-> maxTokens, Model |-> "",
                   System |-> m.system, Tools |-> t.tools, ToolChoice |-> t.toolChoice,
                   Temperature |-> openAIReq.Temperature]
        EmptyParams == [Messages |-> << >>, MaxTokens |-> 0, Model |-> "", System |-> << >>,
                        Tools |-> << >>, ToolChoice |-> ZeroToolChoice,
                        Temperature |-> NilPtr]
    IN  IF m.err # "nil" THEN [params |-> EmptyParams, err |-> m.err]
        ELSE IF t.err # "nil" THEN [params |-> EmptyParams, err |-> t.err]
        ELSE IF validateTemperatureForAnthropic(openAIReq.Temperature) # "nil"
        THEN [params |-> EmptyParams,
              err |-> validateTemperatureForAnthropic(openAIReq.Temperature)]
        ELSE [params |-> params, err |-> "nil"]

\* json.Marshal of anthropic.MessageNewParams.
MarshalTextBlock(b) ==
    JSONObject(<< Member("text", JSONString(b.text)), Member("type", JSONString(b.type)) >>)

RECURSIVE MarshalContentBlockParam(_)
MarshalContentBlockParam(b) ==
    IF b.type = "tool_use"
    THEN JSONObject(<< Member("id", JSONString(b.id)), Member("input", b.input),
                       Member("name", JSONString(b.name)),
                       Member("type", JSONString(b.type)) >>)
    ELSE IF b.type = "tool_result"
    THEN JSONObject(<< Member("tool_use_id", JSONString(b.id)) >>
                    \o (IF Len(b.content) > 0
                        THEN << Member("content",
                                       JSONArray([i \in 1..Len(b.content) |->
                                                     MarshalContentBlockParam(b.content[i])])) >>
                        ELSE << >>)
                    \o << Member("type", JSONString(b.type)) >>)
    ELSE MarshalTextBlock(b)

MarshalMessageParam(m) ==
    JSONObject(<< Member("content",
                         JSONArray([i \in 1..Len(m.Content) |->
                                       MarshalContentBlockParam(m.Content[i])])),
                  Member("role", JSONString(m.Role)) >>)

\* A constant of the SDK is written as its default when it was left empty,
\* and as the string it was set to otherwise.
MarshalToolChoice(tc) ==
    JSONObject(
        (IF tc.Of = "tool" THEN << Member("name", JSONString(tc.Name)) >> ELSE << >>)
        \o (IF tc.DisableParallelToolUse # NilPtr
            THEN << Member("disable_parallel_tool_use",
                           IF tc.DisableParallelToolUse[1] THEN "true" ELSE "false") >>
            ELSE << >>)
        \o << Member("type", JSONString(IF tc.Type = "" THEN tc.Of ELSE tc.Type)) >>)

MarshalToolParam(tool) ==
    JSONObject(<< Member("input_schema",
                         JSONObject((IF tool.Properties # NilPtr
                                     THEN << Member("properties", tool.Properties[1]) >>
                                     ELSE << >>)
                                    \o << Member("type", JSONString("object")) >>)),
                  Member("name", JSONString(tool.Name)),
                  Member("description", JSONString(tool.Description)) >>)

MarshalMessageNewParams(params) ==
    JSONObject(
        << Member("max_tokens", Itoa(params.MaxTokens)),
           Member("messages",
                  JSONArray([i \in 1..Len(params.Messages) |->
                                MarshalMessageParam(params.Messages[i])])) >>
        \o (IF params.Model # ""
            THEN << Member("model", JSONString(params.Model)) >> ELSE << >>)
        \o (IF Len(params.System) > 0
            THEN << Member("system",
                           JSONArray([i \in 1..Len(params.System) |->
                                         MarshalTextBlock(params.System[i])])) >>
            ELSE << >>)
        \o (IF params.Temperature # NilPtr
            THEN << Member("temperature", JSONTenths(params.Temperature[1])) >>
            ELSE << >>)
        \o (IF params.ToolChoice # ZeroToolChoice
            THEN << Member("tool_choice", MarshalToolChoice(params.ToolChoice)) >>
            ELSE << >>)
        \o (IF Len(params.Tools) > 0
            THEN << Member("tools",
                           JSONArray([i \in 1..Len(params.Tools) |->
                                         MarshalToolParam(params.Tools[i])])) >>
            ELSE << >>))

\* Mutant: a streaming request is translated like any other.
AnthropicRequestBodyStreaming(openAIReq) ==
    LET p == buildAnthropicParams(openAIReq)
        body == MarshalMessageNewParams(p.params)
        pathSuffix == buildGCPModelPathSuffix(GCPModelPublisherAnthropic, openAIReq.Model,
                                              "rawPredict")
        muts == buildGCPRequestMutations(pathSuffix,
                    SjsonSetBytes(body, anthropicVersionKey, anthropicVersionValue))
    IN  IF p.err # "nil" THEN TrError(p.err)
        ELSE TrResult(muts.hm, muts.bm, "nil")

\* openAIToAnthropicTranslatorV1ChatCompletion.RequestBody
AnthropicRequestBody(openAIReq) ==
    LET p == buildAnthropicParams(openAIReq)
        body == MarshalMessageNewParams(p.params)
        pathSuffix == buildGCPModelPathSuffix(GCPModelPublisherAnthropic, openAIReq.Model,
                                              "rawPredict")
        versioned == SjsonSetBytes(body, anthropicVersionKey, anthropicVersionValue)
        muts == buildGCPRequestMutations(pathSuffix, versioned)
    IN  IF p.err # "nil" THEN TrError(p.err)
        ELSE IF openAIReq.Stream THEN TrError(errStreamingNotSupported)
        ELSE TrResult(muts.hm, muts.bm, "nil")

\* ---- responses of the upstream ----
statusHeaderName      == ":status"
contentTypeHeaderName == "content-type"
jsonContentType       == "application/json"

\* respHeaders is a map; a missing key reads as the empty string.
HeaderOf(respHeaders, key) ==
    IF key \in DOMAIN respHeaders THEN respHeaders[key] ELSE ""

\* The header maps of a response: any of these statuses, or none, with any of
\* these content types, or none.
ResponseHeaderMaps ==
    { st @@ ct :
        st \in { EmptyMap } \cup { (statusHeaderName :> c) : c \in {"200", "404", "503", "abc"} },
        ct \in { EmptyMap } \cup { (contentTypeHeaderName :> t) :
                                     t \in {"application/json; charset=utf-8", "text/plain"} } }

\* strconv.Atoi on an unsigned decimal: [ok, n].
RECURSIVE AtoiDigits(_, _)
AtoiDigits(str, acc) ==
    IF Len(str) = 0 THEN [ok |-> TRUE, n |-> acc]
    ELSE LET c == SubSeq(str, 1, 1)
         IN  IF \E d \in 0..9 : Digit[d + 1] = c
             THEN AtoiDigits(SubSeq(str, 2, Len(str)),
                             10 * acc + (CHOOSE d \in 0..9 : Digit[d + 1] = c))
             ELSE [ok |-> FALSE, n |-> 0]

Atoi(str) == IF Len(str) = 0 THEN [ok |-> FALSE, n |-> 0] ELSE AtoiDigits(str, 0)

isGoodStatusCode(code) == code >= 200 /\ code < 300

\* setContentLength(headers, body): the content-length of body is appended.
setContentLength(headers, body) ==
    [headers EXCEPT !.SetHeaders = Append(@, RawHeader("content-length", Itoa(Len(body))))]

EmptyHeaderMutation == [nil |-> FALSE, SetHeaders |-> << >>]

\* A body of the upstream is its bytes together with what a JSON decoder
\* makes of them.
Undecodable(bytes) == [bytes |-> bytes, decoded |-> [ok |-> FALSE, kind |-> "none"]]

\* anthropic.ErrorResponse bodies, and bodies that are no JSON.
AnthropicErrorBody(type, message) ==
    [bytes |-> JSONObject(<< Member("type", JSONString("error")),
                             Member("error",
                                    JSONObject(<< Member("type", JSONString(type)),
                                                  Member("message", JSONString(message)) >>)) >>),
     decoded |-> [ok |-> TRUE, kind |-> "error", Type |-> type, Message |-> message]]

\* anthropic.Message bodies; a content block is a text or a tool_use.
MarshalContentBlock(b) ==
    IF b.Type = "tool_use"
    THEN JSONObject(<< Member("type", JSONString(b.Type)), Member("id", JSONString(b.ID)),
                       Member("name", JSONString(b.Name)), Member("input", b.Input) >>)
    ELSE JSONObject(<< Member("type", JSONString(b.Type)), Member("text", JSONString(b.Text)) >>)

AnthropicMessageBody(stopReason, role, content, usage) ==
    [bytes |-> JSONObject(
                   << Member("type", JSONString("message")),
                      Member("role", JSONString(role)),
                      Member("content",
                             JSONArray([i \in 1..Len(content) |-> MarshalContentBlock(content[i])])),
                      Member("stop_reason", JSONString(stopReason)),
                      Member("usage",
                             JSONObject(<< Member("input_tokens", FormatInt64(usage.InputTokens)),
                                           Member("output_tokens", FormatInt64(usage.OutputTokens)) >>)) >>),
     decoded |-> [ok |-> TRUE, kind |-> "message", StopReason |-> stopReason, Role |-> role,
                  Content |-> content, Usage |-> usage]]

\* json.Decode into anthropic.ErrorResponse and into anthropic.Message: the
\* fields the JSON does not have stay zero.
DecodeErrorResponse(body) ==
    IF body.decoded.kind = "error"
    THEN [Type |-> body.decoded.Type, Message |-> body.decoded.Message]
    ELSE [Type |-> "", Message |-> ""]

DecodeMessage(body) ==
    IF body.decoded.kind = "message"
    THEN [StopReason |-> body.decoded.StopReason, Role |-> body.decoded.Role,
          Content |-> body.decoded.Content, Usage |-> body.decoded.Usage]
    ELSE [StopReason |-> "", Role |-> "", Content |-> << >>,
          Usage |-> [InputTokens |-> ToInt64(0), OutputTokens |-> ToInt64(0)]]

ErrorBodies ==
    { AnthropicErrorBody(t, m) :
        t \in {"invalid_request_error", "overloaded_error"},
        m \in {"Overloaded", "model \"x\" not found"} }
    \cup { Undecodable("upstream connect error"), Undecodable(""), Undecodable("{\"error\":") }

TextBlock(text) == [Type |-> "text", Text |-> text, ID |-> "", Name |-> "", Input |-> "null"]
ToolUseBlock(id, name, input) ==
    [Type |-> "tool_use", Text |-> "", ID |-> id, Name |-> name, Input |-> input]

MessageBodies ==
    { AnthropicMessageBody(stop, role, content, usage) :
        stop \in {"end_turn", "stop_sequence", "pause_turn", "max_tokens", "tool_use",
                  "refusal", "bogus"},
        role \in {"assistant", "user", "system"},
        content \in { << >>,
                      << TextBlock("Hello"), TextBlock("again") >>,
                      << TextBlock(""), ToolUseBlock("toolu_01", "get_weather", "{\"city\":\"Paris\"}") >>,
                      << ToolUseBlock("", "noid", "{}"), TextBlock("a \"b\"") >> },
        usage \in { [InputTokens |-> ToInt64(0), OutputTokens |-> ToInt64(0)],
                    [InputTokens |-> ToInt64(12), OutputTokens |-> ToInt64(345)],
                    [InputTokens |-> Int64(Two16, 12), OutputTokens |-> ToInt64(345)] } }

\* json.Marshal of openai.Error.
MarshalOpenAIError(e) ==
    JSONObject(<< Member("type", JSONString(e.Type)),
                  Member("error",
                         JSONObject(<< Member("type", JSONString(e.Error.Type)),
                                       Member("message", JSONString(e.Error.Message)),
                                       Member("code", JSONString(e.Error.Code)) >>)) >>)

\* openAIToAnthropicTranslatorV1ChatCompletion.ResponseError
AnthropicResponseError(respHeaders, body) ==
    LET statusCode == HeaderOf(respHeaders, statusHeaderName)
        isJSON == /\ contentTypeHeaderName \in DOMAIN respHeaders
                  /\ Contains(respHeaders[contentTypeHeaderName], jsonContentType)
        openaiError ==
            IF isJSON
            THEN [Type |-> "error",
                  Error |-> [Type |-> DecodeErrorResponse(body).Type,
                             Message |-> DecodeErrorResponse(body).Message,
                             Code |-> statusCode]]
            ELSE [Type |-> "error",
                  Error |-> [Type |-> gcpBackendError, Message |-> body.bytes,
                             Code |-> statusCode]]
        mutBody == MarshalOpenAIError(openaiError)
    IN  IF isJSON /\ ~body.decoded.ok
        THEN TrError("failed to unmarshal JSON error body")
        ELSE TrResult(setContentLength(EmptyHeaderMutation, mutBody),
                      [nil |-> FALSE, Body |-> mutBody], "nil")

\* Mutant: an unknown stop reason counts as a natural stop.
anthropicToOpenAIFinishReasonLenient(stopReason) ==
    IF stopReason = "max_tokens" THEN [reason |-> "length", err |-> "nil"]
    ELSE IF stopReason = "tool_use" THEN [reason |-> "tool_calls", err |-> "nil"]
    ELSE IF stopReason = "refusal" THEN [reason |-> "content_filter", err |-> "nil"]
    ELSE [reason |-> "stop", err |-> "nil"]

\* The result is [reason, err].
anthropicToOpenAIFinishReason(stopReason) ==
    IF stopReason \in {"end_turn", "stop_sequence", "pause_turn"}
    THEN [reason |-> "stop", err |-> "nil"]
    ELSE IF stopReason = "max_tokens" THEN [reason |-> "length", err |-> "nil"]
    ELSE IF stopReason = "tool_use" THEN [reason |-> "tool_calls", err |-> "nil"]
    ELSE IF stopReason = "refusal" THEN [reason |-> "content_filter", err |-> "nil"]
    ELSE [reason |-> "", err |-> "received invalid stop reason " \o stopReason]

\* The result is [role, err].
anthropicRoleToOpenAIRole(role) ==
    IF role = "assistant" THEN [role |-> "assistant", err |-> "nil"]
    ELSE IF role = "user" THEN [role |-> "user", err |-> "nil"]
    ELSE [role |-> "", err |-> "invalid anthropic role " \o role]

\* The tool calls of one content block; Input is the JSON of the arguments.
anthropicToolUseToOpenAICalls(block) ==
    IF block.Type # "tool_use" THEN << >>
    ELSE << [ID |-> block.ID, Type |-> "function",
             Function |-> [Name |-> block.Name, Arguments |-> block.Input]] >>

\* json.Marshal of openai.ChatCompletionResponse; Content is a pointer.
MarshalToolCall(tc) ==
    JSONObject(<< Member("id", JSONString(tc.ID)),
                  Member("function",
                         JSONObject(<< Member("arguments", JSONString(tc.Function.Arguments)),
                                       Member("name", JSONString(tc.Function.Name)) >>)),
                  Member("type", JSONString(tc.Type)) >>)

MarshalChoice(c) ==
    JSONObject(
        << Member("finish_reason", JSONString(c.FinishReason)),
           Member("index", Itoa(c.Index)),
           Member("message",
                  JSONObject(
                      (IF c.Message.Content # NilPtr
                       THEN << Member("content", JSONString(c.Message.Content[1])) >>
                       ELSE << >>)
                      \o << Member("role", JSONString(c.Message.Role)) >>
                      \o (IF Len(c.Message.ToolCalls) > 0
                          THEN << Member("tool_calls",
                                         JSONArray([i \in 1..Len(c.Message.ToolCalls) |->
                                                       MarshalToolCall(c.Message.ToolCalls[i])])) >>
                          ELSE << >>))) >>)

MarshalChatCompletionResponse(r) ==
    JSONObject(
        << Member("choices",
                  JSONArray([i \in 1..Len(r.Choices) |-> MarshalChoice(r.Choices[i])])),
           Member("object", JSONString(r.Object)),
           Member("usage",
                  JSONObject(<< Member("completion_tokens", FormatInt64(r.Usage.CompletionTokens)),
                                Member("prompt_tokens", FormatInt64(r.Usage.PromptTokens)),
                                Member("total_tokens", FormatInt64(r.Usage.TotalTokens)) >>)) >>)

\* The loop over anthropicResp.Content: the message of the choice.
RECURSIVE AnthropicChoiceMessage(_, _)
AnthropicChoiceMessage(content, message) ==
    IF Len(content) = 0 THEN message
    ELSE LET output == Head(content)
         IN  AnthropicChoiceMessage(Tail(content),
                 IF output.Type = "tool_use" /\ output.ID # ""
                 THEN [message EXCEPT !.ToolCalls = @ \o anthropicToolUseToOpenAICalls(output)]
                 ELSE IF output.Type = "text" /\ output.Text # "" /\ message.Content = NilPtr
                 THEN [message EXCEPT !.Content = Ptr(output.Text)]
                 ELSE message)

LLMTokenUsage(input, output, total) ==
    [InputTokens |-> input, OutputTokens |-> output, TotalTokens |-> total]

TrResultUsage(r, tokenUsage) ==
    [hm |-> r.hm, bm |-> r.bm, err |-> r.err, tokenUsage |-> tokenUsage]

\* openAIToAnthropicTranslatorV1ChatCompletion.ResponseBody
AnthropicResponseBody(respHeaders, body) ==
    LET hasStatus == statusHeaderName \in DOMAIN respHeaders
        status == Atoi(HeaderOf(respHeaders, statusHeaderName))
        anthropicResp == DecodeMessage(body)
        usage == LLMTokenUsage(Uint32(anthropicResp.Usage.InputTokens),
                               Uint32(anthropicResp.Usage.OutputTokens),
                               Uint32(Add64(anthropicResp.Usage.InputTokens,
                                            anthropicResp.Usage.OutputTokens)))
        finish == anthropicToOpenAIFinishReason(anthropicResp.StopReason)
        role == anthropicRoleToOpenAIRole(anthropicResp.Role)
        choice == [Index |-> 0, FinishReason |-> finish.reason,
                   Message |-> AnthropicChoiceMessage(anthropicResp.Content,
                                   [Role |-> role.role, Content |-> NilPtr, ToolCalls |-> << >>])]
        openAIResp == [Object |-> "chat.completion", Choices |-> << choice >>,
                       Usage |-> [CompletionTokens |-> anthropicResp.Usage.OutputTokens,
                                  PromptTokens |-> anthropicResp.Usage.InputTokens,
                                  TotalTokens |-> Add64(anthropicResp.Usage.InputTokens,
                                                        anthropicResp.Usage.OutputTokens)]]
        mutBody == MarshalChatCompletionResponse(openAIResp)
        none == LLMTokenUsage(0, 0, 0)
    IN  IF hasStatus /\ ~status.ok
        THEN TrResultUsage(TrError("failed to parse status code"), none)
        ELSE IF hasStatus /\ ~isGoodStatusCode(status.n)
        THEN TrResultUsage(AnthropicResponseError(respHeaders, body), none)
        ELSE IF ~body.decoded.ok
        THEN TrResultUsage(TrError("failed to unmarshal body"), none)
        ELSE IF finish.err # "nil" THEN TrResultUsage(TrError(finish.err), none)
        ELSE IF role.err # "nil" THEN TrResultUsage(TrError(role.err), none)
        ELSE TrResultUsage(
                 TrResult(setContentLength(EmptyHeaderMutation, mutBody),
                          [nil |-> FALSE, Body |-> mutBody], "nil"),
                 usage)

\* ---- OpenAI -> GCP Gemini ----
\* fromDeveloperMsg, fromUserMsg, fromAssistantMsg on a string content: one
\* text part, none for the empty string.
\* Mutant: a part is made of an empty text too.
PartsFromTextKeepEmpty(text) ==
    << [Text |-> text, FunctionCall |-> NilPtr, FunctionResponse |-> NilPtr,
        InlineData |-> NilPtr, FileData |-> NilPtr] >>

PartsFromText(text) ==
    IF text = ""
    THEN << >>
    ELSE << [Text |-> text, FunctionCall |-> NilPtr, FunctionResponse |-> NilPtr,
        InlineData |-> NilPtr, FileData |-> NilPtr] >>

\* mime.TypeByExtension(path.Ext(imgURL)) on the image types of the package,
\* the empty string for an unknown extension.
HasSuffix(str, suffix) ==
    Len(str) >= Len(suffix) /\ SubSeq(str, Len(str) - Len(suffix) + 1, Len(str)) = suffix

TypeByExtension(imgURL) ==
    IF HasSuffix(imgURL, ".png") THEN MimeTypeImagePNG
    ELSE IF HasSuffix(imgURL, ".gif") THEN MimeTypeImageGIF
    ELSE IF HasSuffix(imgURL, ".webp") THEN MimeTypeImageWEBP
    ELSE IF HasSuffix(imgURL, ".jpg") \/ HasSuffix(imgURL, ".jpeg") THEN MimeTypeImageJPEG
    ELSE ""

\* The position of the first comma of str from position i on, 0 when there
\* is none.
RECURSIVE IndexComma(_, _)
IndexComma(str, i) ==
    IF i > Len(str) THEN 0
    ELSE IF SubSeq(str, i, i) = "," THEN i
    ELSE IndexComma(str, i + 1)

\* parseDataURI as [ok, contentType, bin]: regDataURI wants "data:", an
\* optional type, an optional ";base64" and a comma; what follows the comma
\* is base64, kept here in its encoded form (whole groups of four).
parseDataURI(uri) ==
    LET c == IndexComma(uri, 6)
        head == SubSeq(uri, 6, c - 1)
        contentType == IF HasSuffix(head, ";base64")
                       THEN SubSeq(head, 1, Len(head) - Len(";base64"))
                       ELSE head
        payload == SubSeq(uri, c + 1, Len(uri))
    IN  IF ~(Len(uri) >= 5 /\ SubSeq(uri, 1, 5) = "data:") \/ c = 0
        THEN [ok |-> FALSE, contentType |-> "", bin |-> "",
              err |-> "data uri does not have a valid format"]
        ELSE IF Len(payload) % 4 # 0
        THEN [ok |-> FALSE, contentType |-> "", bin |-> "",
              err |-> "illegal base64 data"]
        ELSE [ok |-> TRUE, contentType |-> contentType, bin |-> payload, err |-> "nil"]

\* The image case of fromUserMsg as [parts, err]: an empty URL is skipped, a
\* URL that url.Parse rejects (here: one that starts with a colon) and a bad
\* data URI are errors, a data URI gives inline data, any other URL a file.
fromImageContent(imgURL) ==
    LET d == parseDataURI(imgURL)
        mt == TypeByExtension(imgURL)
        blank == [Text |-> "", FunctionCall |-> NilPtr, FunctionResponse |-> NilPtr,
                  InlineData |-> NilPtr, FileData |-> NilPtr]
    IN  IF imgURL = "" THEN [parts |-> << >>, err |-> "nil"]
        ELSE IF SubSeq(imgURL, 1, 1) = ":"
        THEN [parts |-> << >>, err |-> "invalid image URL: missing protocol scheme"]
        ELSE IF Len(imgURL) >= 5 /\ SubSeq(imgURL, 1, 5) = "data:"
        THEN IF ~d.ok
             THEN [parts |-> << >>, err |-> "failed to parse data URI: " \o d.err]
             ELSE [parts |-> << [blank EXCEPT !.InlineData =
                                    Ptr([Data |-> d.bin, MIMEType |-> d.contentType])] >>,
                   err |-> "nil"]
        ELSE [parts |-> << [blank EXCEPT !.FileData =
                               Ptr([FileURI |-> imgURL,
                                    MIMEType |-> IF mt # "" THEN mt ELSE MimeTypeImageJPEG])] >>,
              err |-> "nil"]

\* Mutant: an audio part is skipped.
fromInputAudioContentSkipped(parts) == [parts |-> parts, err |-> "nil"]

\* The audio case of fromUserMsg, parts being those made so far.
fromInputAudioContent(parts) == [parts |-> << >>, err |-> "audio content not supported yet"]

\* The array case of fromUserMsg as [parts, err], parts so far in parts.
RECURSIVE fromUserContentParts(_, _)
fromUserContentParts(contentValue, parts) ==
    IF Len(contentValue) = 0 THEN [parts |-> parts, err |-> "nil"]
    ELSE LET content == Head(contentValue)
             img == fromImageContent(content.value)
         IN  IF content.kind = "text"
             THEN fromUserContentParts(Tail(contentValue),
                      Append(parts, [Text |-> content.value, FunctionCall |-> NilPtr,
                                     FunctionResponse |-> NilPtr,
                                     InlineData |-> NilPtr, FileData |-> NilPtr]))
             ELSE IF content.kind = "image_url"
             THEN IF img.err # "nil" THEN [parts |-> << >>, err |-> img.err]
                  ELSE fromUserContentParts(Tail(contentValue), parts \o img.parts)
             ELSE fromInputAudioContent(parts)

\* fromUserMsg as [parts, err].
fromUserMsg(msg) ==
    IF msg.Parts = NilPtr
    THEN [parts |-> PartsFromText(msg.Text), err |-> "nil"]
    ELSE fromUserContentParts(msg.Parts[1], << >>)

\* The result is [parts, toolCalls, err]; toolCalls are the <<ID, Name>> pairs
\* of the message, parts so far in acc.
RECURSIVE fromAssistantMsg(_, _, _)
fromAssistantMsg(msg, k, acc) ==
    IF k > Len(msg.ToolCalls)
    THEN [parts |-> acc \o PartsFromText(msg.Text),
          toolCalls |-> [i \in 1..Len(msg.ToolCalls) |->
                            <<msg.ToolCalls[i].ID, msg.ToolCalls[i].Name>>],
          err |-> "nil"]
    ELSE LET toolCall == msg.ToolCalls[k]
             parsedArgs == ParseArguments(toolCall.Arguments)
         IN  IF ~parsedArgs.ok
             THEN [parts |-> << >>, toolCalls |-> << >>,
                   err |-> "function arguments should be valid json string. failed to parse function arguments"]
             ELSE fromAssistantMsg(msg, k + 1,
                      Append(acc, [Text |-> "",
                                   FunctionCall |-> Ptr([Name |-> toolCall.Name,
                                                         Args |-> parsedArgs.args]),
                                   FunctionResponse |-> NilPtr,
                                   InlineData |-> NilPtr, FileData |-> NilPtr]))

\* knownToolCalls[msg.ToolCallID], the empty string for an unknown id: the
\* last pair recorded for the id wins.
RECURSIVE LookupToolCall(_, _)
LookupToolCall(knownToolCalls, id) ==
    IF Len(knownToolCalls) = 0 THEN ""
    ELSE IF knownToolCalls[Len(knownToolCalls)][1] = id
    THEN knownToolCalls[Len(knownToolCalls)][2]
    ELSE LookupToolCall(SubSeq(knownToolCalls, 1, Len(knownToolCalls) - 1), id)

fromToolMsg(msg, knownToolCalls) ==
    [Text |-> "", FunctionCall |-> NilPtr,
     FunctionResponse |-> Ptr([Name |-> LookupToolCall(knownToolCalls, msg.ToolCallID),
                               Response |-> msg.Text]),
     InlineData |-> NilPtr, FileData |-> NilPtr]

\* Mutant: every accumulated part becomes a user content of its own.
flushPartsOneByOne(gcpContents, gcpParts) ==
    gcpContents \o [i \in 1..Len(gcpParts) |-> [Role |-> "user", Parts |-> << gcpParts[i] >>]]

\* The accumulated user and tool parts become one user content.
flushParts(gcpContents, gcpParts) ==
    IF Len(gcpParts) > 0
    THEN Append(gcpContents, [Role |-> "user", Parts |-> gcpParts])
    ELSE gcpContents

\* The result is [contents, systemInstruction, err]; gcpParts are the user and
\* tool parts not yet flushed into a content.
RECURSIVE toGeminiContents(_, _, _, _, _)
toGeminiContents(messages, gcpContents, systemInstruction, knownToolCalls, gcpParts) ==
    IF Len(messages) = 0
    THEN [contents |-> flushParts(gcpContents, gcpParts),
          systemInstruction |-> systemInstruction,
          err |-> "nil"]
    ELSE LET msg == Head(messages)
             inst == PartsFromText(msg.Text)
             a == fromAssistantMsg(msg, 1, << >>)
             u == fromUserMsg(msg)
         IN  IF msg.Type \in {"developer", "system"}
             THEN toGeminiContents(Tail(messages), gcpContents,
                      IF Len(inst) = 0 THEN systemInstruction
                      ELSE IF systemInstruction = NilPtr
                      THEN Ptr([Role |-> "user", Parts |-> inst])
                      ELSE Ptr([Role |-> "user", Parts |-> systemInstruction[1].Parts \o inst]),
                      knownToolCalls, gcpParts)
             ELSE IF msg.Type = "user"
             THEN IF u.err # "nil"
                  THEN [contents |-> << >>, systemInstruction |-> NilPtr,
                        err |-> "error converting user message: " \o u.err]
                  ELSE toGeminiContents(Tail(messages), gcpContents, systemInstruction,
                                        knownToolCalls, gcpParts \o u.parts)
             ELSE IF msg.Type = "tool"
             THEN toGeminiContents(Tail(messages), gcpContents, systemInstruction,
                                   knownToolCalls,
                                   Append(gcpParts, fromToolMsg(msg, knownToolCalls)))
             ELSE IF msg.Type = "assistant"
             THEN IF a.err # "nil"
                  THEN [contents |-> << >>, systemInstruction |-> NilPtr,
                        err |-> "error converting assistant message: " \o a.err]
                  ELSE toGeminiContents(Tail(messages),
                           Append(flushParts(gcpContents, gcpParts),
                                  [Role |-> "model", Parts |-> a.parts]),
                           systemInstruction, knownToolCalls \o a.toolCalls, << >>)
             ELSE [contents |-> << >>, systemInstruction |-> NilPtr,
                   err |-> "invalid role in message: " \o msg.Type]

toGeminiGenerationConfig(openAIReq) ==
    [Temperature |-> openAIReq.Temperature,
     MaxOutputTokens |-> IF openAIReq.MaxTokens # NilPtr THEN openAIReq.MaxTokens[1] ELSE 0]

\* The result is [gcr, err].
openAIMessageToGeminiMessage(openAIReq) ==
    LET c == toGeminiContents(openAIReq.Messages, << >>, NilPtr, << >>, << >>)
    IN  [gcr |-> [Contents |-> c.contents,
                  GenerationConfig |-> toGeminiGenerationConfig(openAIReq),
                  SystemInstruction |-> c.systemInstruction],
         err |-> c.err]

\* json.Marshal of GenerateContentRequest.
MarshalPart(part) ==
    IF part.FunctionCall # NilPtr
    THEN JSONObject(<< Member("functionCall",
             JSONObject((IF part.FunctionCall[1].Args # "{}"
                         THEN << Member("args", part.FunctionCall[1].Args) >> ELSE << >>)
                        \o << Member("name", JSONString(part.FunctionCall[1].Name)) >>)) >>)
    ELSE IF part.FunctionResponse # NilPtr
    THEN JSONObject(<< Member("functionResponse",
             JSONObject((IF part.FunctionResponse[1].Name # ""
                         THEN << Member("name", JSONString(part.FunctionResponse[1].Name)) >>
                         ELSE << >>)
                        \o << Member("response",
                                  JSONObject(<< Member("output",
                                      JSONString(part.FunctionResponse[1].Response)) >>)) >>)) >>)
    ELSE IF part.InlineData # NilPtr
    THEN JSONObject(<< Member("inlineData",
             JSONObject(<< Member("data", JSONString(part.InlineData[1].Data)),
                           Member("mimeType", JSONString(part.InlineData[1].MIMEType)) >>)) >>)
    ELSE IF part.FileData # NilPtr
    THEN JSONObject(<< Member("fileData",
             JSONObject(<< Member("fileUri", JSONString(part.FileData[1].FileURI)),
                           Member("mimeType", JSONString(part.FileData[1].MIMEType)) >>)) >>)
    ELSE JSONObject(<< Member("text", JSONString(part.Text)) >>)

MarshalContent(c) ==
    JSONObject(
        (IF Len(c.Parts) > 0
         THEN << Member("parts", JSONArray([i \in 1..Len(c.Parts) |-> MarshalPart(c.Parts[i])])) >>
         ELSE << >>)
        \o << Member("role", JSONString(c.Role)) >>)

MarshalGenerationConfig(gc) ==
    JSONObject(
        (IF gc.MaxOutputTokens # 0
         THEN << Member("maxOutputTokens", Itoa(gc.MaxOutputTokens)) >> ELSE << >>)
        \o (IF gc.Temperature # NilPtr
            THEN << Member("temperature", JSONTenths(gc.Temperature[1])) >> ELSE << >>))

MarshalGenerateContentRequest(gcr) ==
    JSONObject(
        << Member("contents",
                  IF Len(gcr.Contents) = 0 THEN "null"
                  ELSE JSONArray([i \in 1..Len(gcr.Contents) |-> MarshalContent(gcr.Contents[i])])),
           Member("tools", "null"),
           Member("generation_config", MarshalGenerationConfig(gcr.GenerationConfig)) >>
        \o (IF gcr.SystemInstruction # NilPtr
            THEN << Member("system_instruction", MarshalContent(gcr.SystemInstruction[1])) >>
            ELSE << >>))

\* openAIToGCPGeminiTranslatorV1ChatCompletion.RequestBody
GeminiRequestBody(openAIReq) ==
    LET g == openAIMessageToGeminiMessage(openAIReq)
        model == TrimPrefix(openAIReq.Model, "gcp.")
        pathSuffix == buildGCPModelPathSuffix(GCPModelPublisherGoogle, model,
                                              GCPMethodGenerateContent)
        reqBodyBytes == MarshalGenerateContentRequest(g.gcr)
        muts == buildGCPRequestMutations(pathSuffix, reqBodyBytes)
    IN  IF g.err # "nil"
        THEN TrError("error converting OpenAI request to Gemini request: " \o g.err)
        ELSE TrResult(muts.hm, muts.bm, "nil")

\* openAIToGCPGeminiTranslatorV1ChatCompletion.ResponseError
GeminiResponseError(respHeaders, body) == TrError("nil")

\* genai.GenerateContentResponse bodies: a candidate is nil (<< >>) or has a
\* finish reason and a content that is nil or its parts.
GeminiBody(candidates, usageMetadata) ==
    [bytes |-> JSONObject(<< Member("candidates", Itoa(Len(candidates))) >>),
     decoded |-> [ok |-> TRUE, kind |-> "gemini", Candidates |-> candidates,
                  UsageMetadata |-> usageMetadata]]

Candidate(finishReason, content) == Ptr([FinishReason |-> finishReason, Content |-> content])
TextPart(text) == [Text |-> text, FunctionCall |-> NilPtr]
FunctionCallPart(name, args) == [Text |-> "", FunctionCall |-> Ptr([Name |-> name, Args |-> args])]

GeminiBodies ==
    { GeminiBody(candidates, usageMetadata) :
        candidates \in
            { << >>,
              << Candidate("STOP", Ptr(<< TextPart("Hel"), TextPart("lo") >>)) >>,
              << NilPtr,
                 Candidate("MAX_TOKENS",
                           Ptr(<< FunctionCallPart("get_weather", "{\"city\":\"Paris\"}") >>)) >>,
              << Candidate("SAFETY", NilPtr),
                 Candidate("STOP", Ptr(<< TextPart("a \"b\""), FunctionCallPart("f", "{}") >>)) >>,
              << Candidate("", Ptr(<< TextPart("Hel") >>)),
                 NilPtr,
                 Candidate("MAX_TOKENS", NilPtr) >> },
        usageMetadata \in
            { NilPtr,
              Ptr([PromptTokenCount |-> 3, CandidatesTokenCount |-> 5, TotalTokenCount |-> 8]) } }

DecodeGenerateContentResponse(body) ==
    IF body.decoded.kind = "gemini"
    THEN [Candidates |-> body.decoded.Candidates, UsageMetadata |-> body.decoded.UsageMetadata]
    ELSE [Candidates |-> << >>, UsageMetadata |-> NilPtr]

\* Mutant: a finish reason that is not known counts as a normal stop.
toOpenAIFinishReasonStopDefault(reason) ==
    IF reason = "MAX_TOKENS" THEN "length" ELSE "stop"

toOpenAIFinishReason(reason) ==
    IF reason = "STOP" THEN "stop"
    ELSE IF reason = "MAX_TOKENS" THEN "length"
    ELSE "content_filter"

RECURSIVE extractTextParts(_)
extractTextParts(parts) ==
    IF Len(parts) = 0 THEN "" ELSE Head(parts).Text \o extractTextParts(Tail(parts))

\* uuids are the values uuid.New() returns, in the order of the calls.
RECURSIVE extractToolCalls(_, _)
extractToolCalls(parts, uuids) ==
    IF Len(parts) = 0 THEN << >>
    ELSE IF Head(parts).FunctionCall = NilPtr THEN extractToolCalls(Tail(parts), uuids)
    ELSE << [ID |-> Head(uuids), Type |-> "function",
             Function |-> [Name |-> Head(parts).FunctionCall[1].Name,
                           Arguments |-> Head(parts).FunctionCall[1].Args]] >>
         \o extractToolCalls(Tail(parts), Tail(uuids))

\* The choice of candidate number idx (from 0).
ToOpenAIChoice(idx, candidate, uuids) ==
    LET content == extractTextParts(candidate.Content[1])
        toolCalls == extractToolCalls(candidate.Content[1], uuids)
    IN  [Index |-> idx,
         FinishReason |-> toOpenAIFinishReason(candidate.FinishReason),
         Message |-> IF candidate.Content = NilPtr
                     THEN [Role |-> "", Content |-> NilPtr, ToolCalls |-> << >>]
                     ELSE [Role |-> "assistant",
                           Content |-> IF content = "" /\ Len(toolCalls) > 0
                                       THEN NilPtr ELSE Ptr(content),
                           ToolCalls |-> toolCalls]]

RECURSIVE toOpenAIChoices(_, _, _)
toOpenAIChoices(candidates, idx, uuids) ==
    IF Len(candidates) = 0 THEN << >>
    ELSE IF Head(candidates) = NilPtr THEN toOpenAIChoices(Tail(candidates), idx + 1, uuids)
    ELSE << ToOpenAIChoice(idx, Head(candidates)[1], uuids) >>
         \o toOpenAIChoices(Tail(candidates), idx + 1, uuids)

toOpenAIUsage(metadata) ==
    IF metadata = NilPtr
    THEN [CompletionTokens |-> ToInt64(0), PromptTokens |-> ToInt64(0),
          TotalTokens |-> ToInt64(0)]
    ELSE [CompletionTokens |-> ToInt64(metadata[1].CandidatesTokenCount),
          PromptTokens |-> ToInt64(metadata[1].PromptTokenCount),
          TotalTokens |-> ToInt64(metadata[1].TotalTokenCount)]

geminiResponseToOpenAIMessage(gcr, uuids) ==
    [Choices |-> toOpenAIChoices(gcr.Candidates, 0, uuids),
     Object |-> "chat.completion",
     Usage |-> toOpenAIUsage(gcr.UsageMetadata)]

\* openAIToGCPGeminiTranslatorV1ChatCompletion.ResponseBody
GeminiResponseBody(body, uuids) ==
    LET gcpResp == DecodeGenerateContentResponse(body)
        openAIRespBytes ==
            MarshalChatCompletionResponse(geminiResponseToOpenAIMessage(gcpResp, uuids))
        usage == IF gcpResp.UsageMetadata # NilPtr
                 THEN LLMTokenUsage(gcpResp.UsageMetadata[1].PromptTokenCount,
                                    gcpResp.UsageMetadata[1].CandidatesTokenCount,
                                    gcpResp.UsageMetadata[1].TotalTokenCount)
                 ELSE LLMTokenUsage(0, 0, 0)
    IN  IF ~body.decoded.ok
        THEN TrResultUsage(TrError("error unmarshaling GCP response"), LLMTokenUsage(0, 0, 0))
        ELSE TrResultUsage(
                 TrResult([nil |-> FALSE,
                           SetHeaders |-> << RawHeader("content-length",
                                                       Itoa(Len(openAIRespBytes))),
                                             RawHeader("content-type", "application/json") >>],
                          [nil |-> FALSE, Body |-> openAIRespBytes], "nil"),
                 usage)

\* ---- the calls the router and upstream filters make ----
\* The translators keep no state between calls: trIn and trOut hold one call
\* and its result at a time.
IdleTr == [op |-> "none"]

UpstreamBodies == ErrorBodies \cup MessageBodies \cup GeminiBodies
UUIDs == {"3f2b", "9c1d4e7a"}

CallAnthropicRequestBody ==
    /\ TrFrame
    /\ trIn = IdleTr
    /\ \E openAIReq \in ChatCompletionRequests \cup ToolRequests \cup ToolConversations :
          /\ trIn' = [op |-> "AnthropicRequestBody", openAIReq |-> openAIReq]
          /\ trOut' = AnthropicRequestBody(openAIReq)

CallAnthropicResponseError ==
    /\ TrFrame
    /\ trIn = IdleTr
    /\ \E respHeaders \in ResponseHeaderMaps, body \in UpstreamBodies :
          /\ trIn' = [op |-> "AnthropicResponseError", respHeaders |-> respHeaders,
                      body |-> body]
          /\ trOut' = AnthropicResponseError(respHeaders, body)

CallAnthropicResponseBody ==
    /\ TrFrame
    /\ trIn = IdleTr
    /\ \E respHeaders \in ResponseHeaderMaps, body \in UpstreamBodies :
          /\ trIn' = [op |-> "AnthropicResponseBody", respHeaders |-> respHeaders,
                      body |-> body]
          /\ trOut' = AnthropicResponseBody(respHeaders, body)

CallGeminiRequestBody ==
    /\ TrFrame
    /\ trIn = IdleTr
    /\ \E openAIReq \in ChatCompletionRequests \cup ToolConversations \cup PartConversations :
          /\ trIn' = [op |-> "GeminiRequestBody", openAIReq |-> openAIReq]
          /\ trOut' = GeminiRequestBody(openAIReq)

CallGeminiResponseError ==
    /\ TrFrame
    /\ trIn = IdleTr
    /\ \E respHeaders \in ResponseHeaderMaps, body \in UpstreamBodies :
          /\ trIn' = [op |-> "GeminiResponseError", respHeaders |-> respHeaders,
                      body |-> body]
          /\ trOut' = GeminiResponseError(respHeaders, body)

CallGeminiResponseBody ==
    /\ TrFrame
    /\ trIn = IdleTr
    /\ \E body \in UpstreamBodies, u1 \in UUIDs, u2 \in UUIDs :
          /\ trIn' = [op |-> "GeminiResponseBody", body |-> body, uuids |-> << u1, u2 >>]
          /\ trOut' = GeminiResponseBody(body, << u1, u2 >>)

\* The call has returned and its result was consumed.
TranslatorReturn ==
    /\ TrFrame
    /\ trIn # IdleTr
    /\ trIn' = IdleTr
    /\ trOut' = IdleTr

TranslateNext ==
    \/ TranslatorReturn
    \/ CallAnthropicRequestBody
    \/ CallAnthropicResponseError
    \/ CallAnthropicResponseBody
    \/ CallGeminiRequestBody
    \/ CallGeminiResponseError
    \/ CallGeminiResponseBody

(***************************************************************************)
(* The AIGatewayRoute controller (internal/controller).  Reconcile is one  *)
(* step: the objects it creates and updates are the cluster state after    *)
(* it.  An index of the code counts from 0, a position of a sequence here  *)
(* from 1: rule i of the code is at position i + 1.                        *)
(***************************************************************************)
MaxRules == 2           \* rules of the AIGatewayRoute reconciled

selectedRouteHeaderKey    == "x-ai-eg-selected-route"
hostRewriteHTTPFilterName == "ai-eg-host-rewrite"
mountedExtProcSecretPath  == "/etc/backend_security_policy"
apiKey                    == "apiKey"
awsCredentialsKey         == "credentials"
azureAccessTokenKey       == "azureAccessToken"

BackendSecurityPolicyTypeAPIKey           == "APIKey"
BackendSecurityPolicyTypeAWSCredentials   == "AWSCredentials"
BackendSecurityPolicyTypeAzureCredentials == "AzureCredentials"
BackendSecurityPolicyTypeGCPCredentials   == "GCPCredentials"

\* ---- the objects the controller reads ----
\* An AIGatewayRouteRuleBackendRef, the header match of a rule and a rule.
RouteBackendRef(name, weight) == [Name |-> name, Weight |-> weight]
RouteMatch(name, value) == [Headers |-> << [Name |-> name, Value |-> value] >>]
RouteRule(backendRefs, matches) == [BackendRefs |-> backendRefs, Matches |-> matches]

RuleShapes ==
    { RouteRule(<< RouteBackendRef("apple", 1) >>, << RouteMatch("x-ai-eg-model", "gpt-4o") >>),
      RouteRule(<< RouteBackendRef("orange", 2), RouteBackendRef("apple", 1) >>, << >>) }

\* The AIGatewayRoute values reconciled: 0..MaxRules rules.
Routes ==
    [Name : {"myroute"},
     Namespace : {"default"},
     Rules : UNION { [1..n -> RuleShapes] : n \in 0..MaxRules }]

\* An AIServiceBackend: the object it points to and its policy reference,
\* a pointer.
NoBackend == [exists |-> FALSE, BackendRef |-> "", BackendSecurityPolicyRef |-> NilPtr]
AIServiceBackend(backendRef, bspRef) ==
    [exists |-> TRUE, BackendRef |-> backendRef, BackendSecurityPolicyRef |-> bspRef]

\* A BackendSecurityPolicy: APIKey is the name of the secret of an API key
\* policy; AWSCredentials and AzureCredentials are pointers.
NoPolicy ==
    [exists |-> FALSE, Name |-> "", Type |-> "", APIKey |-> "",
     AWSCredentials |-> NilPtr, AzureCredentials |-> NilPtr]
BackendSecurityPolicy(name, type, secretName, awsCredentials, azureCredentials) ==
    [exists |-> TRUE, Name |-> name, Type |-> type, APIKey |-> secretName,
     AWSCredentials |-> awsCredentials, AzureCredentials |-> azureCredentials]
AWSCredentials(credentialsFile, oidcExchangeToken) ==
    [Region |-> "us-east-1", CredentialsFile |-> credentialsFile,
     OIDCExchangeToken |-> oidcExchangeToken]

PolicyName == "pol"

\* The policy of the cluster: none, or one of each kind of credentials.
Policies ==
    { NoPolicy,
      BackendSecurityPolicy(PolicyName, BackendSecurityPolicyTypeAPIKey, "apple-key", NilPtr, NilPtr),
      BackendSecurityPolicy(PolicyName, BackendSecurityPolicyTypeAWSCredentials, "",
                            Ptr(AWSCredentials(Ptr("aws-file"), NilPtr)), NilPtr),
      BackendSecurityPolicy(PolicyName, BackendSecurityPolicyTypeAWSCredentials, "",
                            Ptr(AWSCredentials(NilPtr, Ptr("oidc"))), NilPtr),
      BackendSecurityPolicy(PolicyName, BackendSecurityPolicyTypeAWSCredentials, "",
                            Ptr(AWSCredentials(NilPtr, NilPtr)), NilPtr),
      BackendSecurityPolicy(PolicyName, BackendSecurityPolicyTypeAzureCredentials, "",
                            NilPtr, Ptr("azure")),
      BackendSecurityPolicy(PolicyName, BackendSecurityPolicyTypeGCPCredentials, "", NilPtr, NilPtr),
      BackendSecurityPolicy(PolicyName, "Kerberos", "", NilPtr, NilPtr) }

\* ---- API failures ----
\* At most one call of a Reconcile fails for a reason of the API server: a
\* Get of a backend or policy, named by where it is made and for which
\* backend reference, or a write, named by the kind of the object.
Fault(kind, where, i, j) == [kind |-> kind, where |-> where, i |-> i, j |-> j]
NoFault == Fault("none", "", 0, 0)
ServerError == "the server is currently unable to handle the request"
NotFound    == "not found"

\* The positions <<rule, backend reference>> of a route, in the order of
\* the two nested loops.
Positions(route) ==
    UNION { { <<i, j>> : j \in 1..Len(route.Rules[i].BackendRefs) } : i \in 1..Len(route.Rules) }
Before(p, q) == p[1] < q[1] \/ (p[1] = q[1] /\ p[2] < q[2])
FirstOf(S) == CHOOSE p \in S : \A q \in S : p = q \/ Before(p, q)
RECURSIVE InOrder(_)
InOrder(S) == IF S = {} THEN << >> ELSE << FirstOf(S) >> \o InOrder(S \ {FirstOf(S)})

\* The element of a set of one element: Only({ f(x) : x \in {e} }) is f(e),
\* a result of a call named x where it is used more than once.
Only(S) == CHOOSE x \in S : TRUE

Faults(route) ==
    { NoFault }
    \cup { Fault("get", where, p[1], p[2]) :
             where \in {"newHTTPRoute.backend", "reconcileExtProcConfigMap.backend",
                        "bspToFilterAPIAuth.policy", "mountBackendSecurityPolicySecrets.backend",
                        "backendSecurityPolicyVolumes.policy"},
             p \in Positions(route) }
    \cup { Fault("write", kind, 0, 0) :
             kind \in {"HTTPRouteFilter", "EnvoyExtensionPolicy", "HTTPRoute", "ConfigMap",
                       "Deployment", "Service", "Pods"} }

\* c.backend and c.backendSecurityPolicy: client.Get of the object.
backend(k, fault, where, p, name) ==
    IF fault = Fault("get", where, p[1], p[2]) THEN [obj |-> NoBackend, err |-> ServerError]
    ELSE IF ~k.backends[name].exists THEN [obj |-> NoBackend, err |-> NotFound]
    ELSE [obj |-> k.backends[name], err |-> "nil"]

backendSecurityPolicy(k, fault, where, p, name) ==
    IF fault = Fault("get", where, p[1], p[2]) THEN [obj |-> NoPolicy, err |-> ServerError]
    ELSE IF ~k.policies[name].exists THEN [obj |-> NoPolicy, err |-> NotFound]
    ELSE [obj |-> k.policies[name], err |-> "nil"]

\* ---- names ----
extProcName(route) == "ai-eg-route-extproc-" \o route.Name

\* Mutant: the rules are numbered from 1.
routeNameFromOne(aiGatewayRoute, ruleIndex) ==
    aiGatewayRoute.Name \o "-rule-" \o Itoa(ruleIndex + 1)

routeName(aiGatewayRoute, ruleIndex) ==
    aiGatewayRoute.Name \o "-rule-" \o Itoa(ruleIndex)

backendSecurityPolicyVolumeName(ruleIndex, backendRefIndex, name) ==
    "rule" \o Itoa(ruleIndex) \o "-backref" \o Itoa(backendRefIndex) \o "-" \o name

backendSecurityMountPath(backendSecurityPolicyKey) ==
    mountedExtProcSecretPath \o "/" \o backendSecurityPolicyKey

\* path.Join of two clean, non-empty elements.
PathJoin(dir, file) == dir \o "/" \o file

\* ---- the filter configuration ----
\* A filterapi.BackendAuth: one of its pointers is set.
BackendAuth(apiKeyAuth, awsAuth, azureAuth) ==
    [APIKey |-> apiKeyAuth, AWSAuth |-> awsAuth, AzureAuth |-> azureAuth]

\* The *filterapi.BackendAuth of a policy and the error.
bspToFilterAPIAuth(k, fault, p, bspName, volumeName) ==
    LET got == backendSecurityPolicy(k, fault, "bspToFilterAPIAuth.policy", p, bspName)
        bsp == got.obj
    IN  IF got.err # "nil"
        THEN [auth |-> NilPtr,
              err |-> "failed to get BackendSecurityPolicy " \o bspName \o ": " \o got.err]
        ELSE CASE bsp.Type = BackendSecurityPolicyTypeAPIKey ->
                    [auth |-> Ptr(BackendAuth(
                                 Ptr([Filename |-> PathJoin(backendSecurityMountPath(volumeName), apiKey)]),
                                 NilPtr, NilPtr)),
                     err |-> "nil"]
               [] bsp.Type = BackendSecurityPolicyTypeAWSCredentials ->
                    IF bsp.AWSCredentials = NilPtr
                    THEN [auth |-> NilPtr,
                          err |-> "AWSCredentials type selected but not defined " \o bsp.Name]
                    ELSE IF \/ bsp.AWSCredentials[1].CredentialsFile # NilPtr
                            \/ bsp.AWSCredentials[1].OIDCExchangeToken # NilPtr
                    THEN [auth |-> Ptr(BackendAuth(NilPtr,
                                 Ptr([CredentialFileName |->
                                         PathJoin(backendSecurityMountPath(volumeName), awsCredentialsKey),
                                      Region |-> bsp.AWSCredentials[1].Region]),
                                 NilPtr)),
                          err |-> "nil"]
                    ELSE [auth |-> NilPtr, err |-> "nil"]
               [] bsp.Type = BackendSecurityPolicyTypeAzureCredentials ->
                    IF bsp.AzureCredentials = NilPtr
                    THEN [auth |-> NilPtr,
                          err |-> "AzureCredentials type selected but not defined " \o bsp.Name]
                    ELSE [auth |-> Ptr(BackendAuth(NilPtr, NilPtr,
                                 Ptr([Filename |->
                                         PathJoin(backendSecurityMountPath(volumeName), azureAccessTokenKey)]))),
                          err |-> "nil"]
               [] OTHER ->
                    [auth |-> NilPtr,
                     err |-> "invalid backend security type " \o bsp.Type \o " for policy " \o bsp.Name]

\* One pass of the inner loop of reconcileExtProcConfigMap: the
\* filterapi.Backend of a backend reference and the error of the pass.
filterBackend(k, fault, route, p) ==
    LET backendRef == route.Rules[p[1]].BackendRefs[p[2]]
        key        == backendRef.Name \o "." \o route.Namespace
        got        == backend(k, fault, "reconcileExtProcConfigMap.backend", p, backendRef.Name)
        bspRef     == got.obj.BackendSecurityPolicyRef
    IN  IF got.err # "nil"
        THEN [Name |-> key, Auth |-> NilPtr,
              err |-> "failed to get AIServiceBackend " \o key \o ": " \o got.err]
        ELSE IF bspRef = NilPtr
        THEN [Name |-> key, Auth |-> NilPtr, err |-> "nil"]
        ELSE LET volumeName == backendSecurityPolicyVolumeName(p[1] - 1, p[2] - 1, bspRef[1])
                 a == bspToFilterAPIAuth(k, fault, p, bspRef[1], volumeName)
             IN  IF a.err # "nil"
                 THEN [Name |-> key, Auth |-> NilPtr,
                       err |-> "failed to create backend auth: " \o a.err]
                 ELSE [Name |-> key, Auth |-> a.auth, err |-> "nil"]

\* The filterapi.Config of a route, given what the passes of the inner loop
\* made of its backend references. The ConfigMap holds its YAML document
\* under extproc-config.yaml; the model keeps the value the document
\* decodes to.
filterConfig(route, uuid, passes) ==
    [UUID |-> uuid,
     SelectedRouteHeaderKey |-> selectedRouteHeaderKey,
     Rules |-> [i \in 1..Len(route.Rules) |->
                  [Name |-> routeName(route, i - 1),
                   Backends |-> [j \in 1..Len(route.Rules[i].BackendRefs) |->
                                   [Name |-> passes[<<i, j>>].Name,
                                    Auth |-> passes[<<i, j>>].Auth]],
                   Headers |-> [m \in 1..Len(route.Rules[i].Matches) |->
                                   route.Rules[i].Matches[m].Headers[1]]]]]

\* reconcileExtProcConfigMap: the cluster after it and its error. The
\* first pass of the loops that fails ends it; the ConfigMap is then created
\* or updated.
reconcileExtProcConfigMap(k, fault, route, uuid) ==
    Only({ LET failing == { p \in Positions(route) : passes[p].err # "nil" }
               name    == extProcName(route)
           IN  IF failing # {}
               THEN [kube |-> k, err |-> passes[FirstOf(failing)].err]
               ELSE IF fault = Fault("write", "ConfigMap", 0, 0)
               THEN [kube |-> k,
                     err |-> (IF k.configMap = NilPtr THEN "failed to create configmap "
                                                      ELSE "failed to update configmap ")
                             \o name \o ": " \o ServerError]
               ELSE [kube |-> [k EXCEPT !.configMap = Ptr(filterConfig(route, uuid, passes))],
                     err |-> "nil"]
         : passes \in { [p \in Positions(route) |-> filterBackend(k, fault, route, p)] } })

\* ---- the HTTPRoute ----
\* A gwapiv1.HTTPRouteRule: Name and the Path of a match are pointers.
HTTPRouteRule(name, backendRefs, matches, filters) ==
    [Name |-> name, BackendRefs |-> backendRefs, Matches |-> matches, Filters |-> filters]
HTTPRouteMatch(headers, path) == [Headers |-> headers, Path |-> path]

\* The rules with the default rule of path "/" after them, if there is any.
withUnreachableRule(rules) ==
    IF Len(rules) > 0
    THEN Append(rules, HTTPRouteRule(Ptr("unreachable"), << >>,
                                     << HTTPRouteMatch(<< >>, Ptr("/")) >>, << >>))
    ELSE rules

\* newHTTPRoute: the Spec.Rules of dst and the error; got is what c.backend
\* returned for each backend reference.
newHTTPRoute(k, fault, route) ==
    Only({ LET rewriteFilters == << hostRewriteHTTPFilterName >>
               failing == { p \in Positions(route) : got[p].err # "nil" }
               rules == [i \in 1..Len(route.Rules) |->
                           HTTPRouteRule(NilPtr,
                               [j \in 1..Len(route.Rules[i].BackendRefs) |->
                                   [BackendObjectReference |-> got[<<i, j>>].obj.BackendRef,
                                    Weight |-> route.Rules[i].BackendRefs[j].Weight]],
                               << HTTPRouteMatch(<< [Name |-> selectedRouteHeaderKey,
                                                     Value |-> routeName(route, i - 1)] >>,
                                                 NilPtr) >>,
                               rewriteFilters)]
           IN  IF failing # {}
               THEN [rules |-> << >>,
                     err |-> "AIServiceBackend "
                             \o route.Rules[FirstOf(failing)[1]].BackendRefs[FirstOf(failing)[2]].Name
                             \o "." \o route.Namespace \o " not found"]
               ELSE [rules |-> withUnreachableRule(rules), err |-> "nil"]
         : got \in { [p \in Positions(route) |->
                        backend(k, fault, "newHTTPRoute.backend", p,
                                route.Rules[p[1]].BackendRefs[p[2]].Name)] } })

\* ---- the Deployment ----
Volume(name, source) == [Name |-> name, Source |-> source]
VolumeMount(name, mountPath) == [Name |-> name, MountPath |-> mountPath, ReadOnly |-> TRUE]

\* The volumes and the container's volume mounts of a pod spec.
PodSpec(volumes, volumeMounts) == [Volumes |-> volumes, VolumeMounts |-> volumeMounts]

\* The volume and the mount of a policy's secret, and the error.
backendSecurityPolicyVolumes(k, fault, p, bspName, volumeName) ==
    LET got == backendSecurityPolicy(k, fault, "backendSecurityPolicyVolumes.policy", p, bspName)
        bsp == got.obj
        secretName ==
            CASE bsp.Type = BackendSecurityPolicyTypeAPIKey -> Ptr(bsp.APIKey)
              [] bsp.Type = BackendSecurityPolicyTypeAWSCredentials ->
                    IF bsp.AWSCredentials[1].CredentialsFile # NilPtr
                    THEN Ptr(bsp.AWSCredentials[1].CredentialsFile[1])
                    ELSE Ptr(GetBSPSecretName(bsp.Name))
              [] bsp.Type = BackendSecurityPolicyTypeAzureCredentials -> Ptr(GetBSPSecretName(bsp.Name))
              [] bsp.Type = BackendSecurityPolicyTypeGCPCredentials -> Ptr(GetBSPSecretName(bsp.Name))
              [] OTHER -> NilPtr
    IN  IF got.err # "nil"
        THEN [mounted |-> << >>,
              err |-> "failed to get backend security policy " \o bspName \o ": " \o got.err]
        ELSE IF secretName = NilPtr
        THEN [mounted |-> << >>,
              err |-> "backend security policy " \o bsp.Type \o " is not supported"]
        ELSE [mounted |-> << [volume |-> Volume(volumeName, "secret:" \o secretName[1]),
                              volumeMount |-> VolumeMount(volumeName,
                                                 backendSecurityMountPath(volumeName))] >>,
              err |-> "nil"]

\* One pass of the inner loop of mountBackendSecurityPolicySecrets: what it
\* appends and its error.
mountOne(k, fault, route, p) ==
    LET backendRef == route.Rules[p[1]].BackendRefs[p[2]]
        got    == backend(k, fault, "mountBackendSecurityPolicySecrets.backend", p, backendRef.Name)
        bspRef == got.obj.BackendSecurityPolicyRef
    IN  IF got.err # "nil"
        THEN [mounted |-> << >>,
              err |-> "failed to get backend " \o backendRef.Name \o ": " \o got.err]
        ELSE IF bspRef = NilPtr
        THEN [mounted |-> << >>, err |-> "nil"]
        ELSE LET v == backendSecurityPolicyVolumes(k, fault, p, bspRef[1],
                         backendSecurityPolicyVolumeName(p[1] - 1, p[2] - 1, bspRef[1]))
             IN  IF v.err # "nil"
                 THEN [mounted |-> << >>,
                       err |-> "failed to populate backend security policy volume: " \o v.err]
                 ELSE v

RECURSIVE Flatten(_)
Flatten(seqs) == IF Len(seqs) = 0 THEN << >> ELSE Head(seqs) \o Flatten(Tail(seqs))

\* mountBackendSecurityPolicySecrets works on the pod spec it is given a
\* pointer to: it cuts the volumes and the mounts to the first one and
\* appends those of every pass before the first that fails. It returns that
\* pointer, or nil and the error; spec is the pod spec as the call leaves it.
mountBackendSecurityPolicySecrets(k, fault, spec, route) ==
    Only({ LET failing == { p \in Positions(route) : passes[p].err # "nil" }
               done    == IF failing = {} THEN Positions(route)
                          ELSE { p \in Positions(route) : Before(p, FirstOf(failing)) }
               order   == InOrder(done)
               mounted == Flatten([n \in 1..Len(order) |-> passes[order[n]].mounted])
               after   == PodSpec(SubSeq(spec.Volumes, 1, 1)
                                     \o [n \in 1..Len(mounted) |-> mounted[n].volume],
                                  SubSeq(spec.VolumeMounts, 1, 1)
                                     \o [n \in 1..Len(mounted) |-> mounted[n].volumeMount])
           IN  IF failing # {}
               THEN [spec |-> after, ret |-> NilPtr, err |-> passes[FirstOf(failing)].err]
               ELSE [spec |-> after, ret |-> Ptr(after), err |-> "nil"]
         : passes \in { [p \in Positions(route) |-> mountOne(k, fault, route, p)] } })

\* The pod spec of a Deployment that syncExtProcDeployment builds anew.
NewPodSpec(route) ==
    PodSpec(<< Volume("config", "configMap:" \o extProcName(route)) >>,
            << VolumeMount("config", "/etc/ai-gateway/extproc") >>)

\* syncExtProcDeployment: the cluster after it, its error, and the error of
\* mountBackendSecurityPolicySecrets, which the Create or Update that
\* follows assigns over. What is written is deployment.Spec.Template.Spec
\* after the call: the spec the call worked on, which *updatedSpec is too
\* when there is no error.
syncExtProcDeployment(k, fault, route) ==
    Only({ LET name    == extProcName(route)
               isNew   == k.deployment = NilPtr
               written == IF m.err = "nil" THEN m.ret[1] ELSE m.spec
           IN  IF fault = Fault("write", "Deployment", 0, 0)
               THEN [kube |-> k, mountErr |-> m.err, wrote |-> FALSE,
                     err |-> (IF isNew THEN "failed to create deployment: "
                                       ELSE "failed to update deployment: ") \o ServerError]
               ELSE IF fault = Fault("write", "Service", 0, 0)
               THEN [kube |-> [k EXCEPT !.deployment = Ptr(written)],
                     mountErr |-> m.err, wrote |-> TRUE,
                     err |-> "failed to create Service " \o name \o "." \o route.Namespace
                             \o ": " \o ServerError]
               ELSE [kube |-> [k EXCEPT !.deployment = Ptr(written), !.service = TRUE],
                     mountErr |-> m.err, wrote |-> TRUE, err |-> "nil"]
         : m \in { mountBackendSecurityPolicySecrets(
                      k, fault,
                      IF k.deployment = NilPtr THEN NewPodSpec(route) ELSE k.deployment[1],
                      route) } })

\* ---- the reconcile ----
\* c.uidFn(): the identifier given to the configuration.
uidFn == "uid-1"

\* A syncExtProcDeployment call that was not made.
NoDeploymentSync == [called |-> FALSE, mountErr |-> "nil", err |-> "nil", wrote |-> FALSE]

\* The last steps of syncAIGatewayRoute, from the result of
\* syncExtProcDeployment on.
afterExtProcDeployment(dep, fault) ==
    LET deploy == [called |-> TRUE, mountErr |-> dep.mountErr, err |-> dep.err,
                   wrote |-> dep.wrote]
    IN  IF dep.err # "nil"
        THEN [kube |-> dep.kube, err |-> "failed to sync extproc deployment: " \o dep.err,
              deploy |-> deploy]
        ELSE IF fault = Fault("write", "Pods", 0, 0)
        THEN [kube |-> dep.kube,
              err |-> "failed to annotate extproc pods: failed to list pods: " \o ServerError,
              deploy |-> deploy]
        ELSE [kube |-> dep.kube, err |-> "nil", deploy |-> deploy]

\* syncAIGatewayRoute: the cluster after it, its error and what its call of
\* syncExtProcDeployment did. Every step that fails ends it: the
\* HTTPRouteFilter of the namespace, the extension policy, the HTTPRoute
\* (built), the extproc configmap (cm), the extproc deployment (dep) and the
\* annotation of the pods, of which there are none.
syncAIGatewayRoute(k, fault, route) ==
    LET failed(kk, err) == [kube |-> kk, err |-> err, deploy |-> NoDeploymentSync]
        k1 == [k EXCEPT !.httpRouteFilter = TRUE]
        k2 == [k EXCEPT !.httpRouteFilter = TRUE, !.extensionPolicy = TRUE]
    IN  IF ~k.httpRouteFilter /\ fault = Fault("write", "HTTPRouteFilter", 0, 0)
        THEN failed(k, "failed to create HTTPRouteFilter: " \o ServerError)
        ELSE IF fault = Fault("write", "EnvoyExtensionPolicy", 0, 0)
        THEN failed(k1, "failed to reconcile extension policy: "
                        \o (IF k.extensionPolicy THEN "failed to update extension policy: "
                                                 ELSE "failed to create extension policy: ")
                        \o ServerError)
        ELSE Only({
            IF built.err # "nil"
            THEN failed(k2, "failed to construct a new HTTPRoute: " \o built.err)
            ELSE IF fault = Fault("write", "HTTPRoute", 0, 0)
            THEN failed(k2, (IF k.httpRoute # NilPtr THEN "failed to update HTTPRoute: "
                                                     ELSE "failed to create HTTPRoute: ")
                            \o ServerError)
            ELSE Only({
                IF cm.err # "nil"
                THEN failed(cm.kube, "failed to update extproc configmap: " \o cm.err)
                ELSE Only({ afterExtProcDeployment(dep, fault)
                          : dep \in { syncExtProcDeployment(cm.kube, fault, route) } })
              : cm \in { reconcileExtProcConfigMap(
                            [k2 EXCEPT !.httpRoute = Ptr([Rules |-> built.rules])],
                            fault, route, uidFn) } })
          : built \in { newHTTPRoute(k2, fault, route) } })

ConditionTypeAccepted    == "Accepted"
ConditionTypeNotAccepted == "NotAccepted"

\* Reconcile of the AIGatewayRoute, which exists: syncAIGatewayRoute, then
\* the condition of the route's status.
Reconcile ==
    /\ \E fault \in Faults(sync.route) :
          \E r \in { syncAIGatewayRoute(kube, fault, sync.route) } :
              /\ kube' = r.kube
              /\ sync' = [route |-> sync.route, done |-> TRUE,
                          err |-> r.err, deploy |-> r.deploy,
                          condition |-> IF r.err = "nil" THEN ConditionTypeAccepted
                                        ELSE ConditionTypeNotAccepted]
    /\ CtlFrame

ControllerNext ==
    \/ Reconcile

\* The cluster before anything exists in it, and no Reconcile made.
NoCluster ==
    [backends |-> [n \in {"apple", "orange"} |-> NoBackend],
     policies |-> [n \in {PolicyName} |-> NoPolicy],
     httpRouteFilter |-> FALSE, extensionPolicy |-> FALSE, httpRoute |-> NilPtr,
     configMap |-> NilPtr, deployment |-> NilPtr, service |-> FALSE]
IdleKube == NoCluster
IdleSync ==
    [route |-> [Name |-> "", Namespace |-> "", Rules |-> << >>], done |-> FALSE,
     err |-> "nil", deploy |-> NoDeploymentSync, condition |-> ""]

(***************************************************************************)
(* The specifications.  A subsystem that a specification leaves out keeps  *)
(* the value it has before anything was constructed.                       *)
(***************************************************************************)
IdleRotator == [backendSecurityPolicyName |-> BspName,
                backendSecurityPolicyNamespace |-> BspNamespace,
                preRotationWindow |-> 0]
IdleHandler == newGCPHandler(<< >>, "", "")
IdleProc    == NewModelsProcessor(<< >>, TRUE)

\* The token rotator: the store holds any of InitialSecrets for the policy,
\* the rotator has any pre-rotation window, no call was made yet.
RotInit ==
    /\ now = StartTime
    /\ \E s \in InitialSecrets :
          secrets = [k \in SecretKeys |->
                        IF k = <<BspNamespace, GetBSPSecretName(BspName)>> THEN s ELSE NoSecret]
    /\ \E w \in 0..MaxWindow :
          rotator = [backendSecurityPolicyName |-> BspName,
                     backendSecurityPolicyNamespace |-> BspNamespace,
                     preRotationWindow |-> w]
    /\ alive = TRUE
    /\ rot = IdleRot
    /\ prt = IdleCall
    /\ poll = IdleCall
    /\ credFile = << >>
    /\ handler = IdleHandler
    /\ headerMut = << >>
    /\ bodyMut = NilBodyMutation
    /\ doLog = << >>
    /\ proc = IdleProc
    /\ calls = << >>
    /\ trIn = IdleTr
    /\ trOut = IdleTr
    /\ kube = IdleKube
    /\ sync = IdleSync

SpecRotator == RotInit /\ [][RotNext]_vars

\* The GCP backend-auth handler: constructed from the mounted file as it is
\* then; no request has arrived yet.
AuthInit ==
    /\ credFile \in CredFiles
    /\ \E region \in Regions, project \in Projects :
          handler = newGCPHandler(credFile, region, project)
    /\ headerMut = << >>
    /\ bodyMut = NilBodyMutation
    /\ doLog = << >>
    /\ now = StartTime
    /\ secrets = [k \in SecretKeys |-> NoSecret]
    /\ rotator = IdleRotator
    /\ alive = TRUE
    /\ rot = IdleRot
    /\ prt = IdleCall
    /\ poll = IdleCall
    /\ proc = IdleProc
    /\ calls = << >>
    /\ trIn = IdleTr
    /\ trOut = IdleTr
    /\ kube = IdleKube
    /\ sync = IdleSync

SpecAuth == AuthInit /\ [][AuthNext]_vars

\* The models-list processor: constructed for any configuration.
ModelsInit ==
    /\ \E cfg \in Configs, isUpstreamFilter \in BOOLEAN :
          proc = NewModelsProcessor(cfg, isUpstreamFilter)
    /\ calls = << >>
    /\ now = StartTime
    /\ secrets = [k \in SecretKeys |-> NoSecret]
    /\ rotator = IdleRotator
    /\ alive = TRUE
    /\ rot = IdleRot
    /\ prt = IdleCall
    /\ poll = IdleCall
    /\ credFile = << >>
    /\ handler = IdleHandler
    /\ headerMut = << >>
    /\ bodyMut = NilBodyMutation
    /\ doLog = << >>
    /\ trIn = IdleTr
    /\ trOut = IdleTr
    /\ kube = IdleKube
    /\ sync = IdleSync

SpecModels == ModelsInit /\ [][ModelsNext]_vars

\* The translators: no call was made yet.
TranslateInit ==
    /\ trIn = IdleTr
    /\ trOut = IdleTr
    /\ now = StartTime
    /\ secrets = [k \in SecretKeys |-> NoSecret]
    /\ rotator = IdleRotator
    /\ alive = TRUE
    /\ rot = IdleRot
    /\ prt = IdleCall
    /\ poll = IdleCall
    /\ credFile = << >>
    /\ handler = IdleHandler
    /\ headerMut = << >>
    /\ bodyMut = NilBodyMutation
    /\ doLog = << >>
    /\ proc = IdleProc
    /\ calls = << >>
    /\ kube = IdleKube
    /\ sync = IdleSync

SpecTranslate == TranslateInit /\ [][TranslateNext]_vars

\* The AIGatewayRoute controller: a route of 0..MaxRules rules; the backend
\* apple refers to the policy, which is of any kind or missing, or to none;
\* the backend orange exists or not; nothing was generated yet.
ControllerInit ==
    /\ \E bspRef \in {NilPtr, Ptr(PolicyName)},
          orange \in {NoBackend, AIServiceBackend("orange-svc", NilPtr)},
          policy \in Policies :
          /\ bspRef = NilPtr => policy = NoPolicy
          /\ kube = [NoCluster EXCEPT
                        !.backends = [n \in {"apple", "orange"} |->
                                        IF n = "apple" THEN AIServiceBackend("apple-svc", bspRef)
                                        ELSE orange],
                        !.policies = [n \in {PolicyName} |-> policy]]
    /\ \E route \in Routes : sync = [IdleSync EXCEPT !.route = route]
    /\ now = StartTime
    /\ secrets = [k \in SecretKeys |-> NoSecret]
    /\ rotator = IdleRotator
    /\ alive = TRUE
    /\ rot = IdleRot
    /\ prt = IdleCall
    /\ poll = IdleCall
    /\ credFile = << >>
    /\ handler = IdleHandler
    /\ headerMut = << >>
    /\ bodyMut = NilBodyMutation
    /\ doLog = << >>
    /\ proc = IdleProc
    /\ calls = << >>
    /\ trIn = IdleTr
    /\ trOut = IdleTr

SpecController == ControllerInit /\ [][ControllerNext]_vars

(***************************************************************************)
(* The claims.                                                             *)
(***************************************************************************)
TheSecret == secrets[<<BspNamespace, "ai-eg-bsp-" \o BspName>>]

\* The first ":path" entry of a SetHeaders, as <<Value, RawValue>>.
PathOf(hs) ==
    LET i == FirstPathHeader(hs)
    IN  IF i = 0 THEN <<"", "">> ELSE <<hs[i].Value, hs[i].RawValue>>

\* The Authorization headers of a SetHeaders.
AuthorizationsOf(hs) ==
    { hs[i].RawValue : i \in { j \in 1..Len(hs) : hs[j].Key = "Authorization" } }

\* The values of the content-length entries of a SetHeaders.
ContentLengthsOf(hs) ==
    { hs[i].RawValue : i \in { j \in 1..Len(hs) : hs[j].Key = "content-length" } }

\* C1: whenever RequestBody, ResponseBody or ResponseError of the GCP Gemini
\* or the GCP Anthropic translator returns a body mutation, the header
\* mutation returned with it has a content-length header, and its value is
\* the decimal byte length of that body.
C1_ContentLengthIsBodyLength ==
    (trIn.op # "none" /\ ~trOut.bm.nil) =>
        /\ ~trOut.hm.nil
        /\ ContentLengthsOf(trOut.hm.SetHeaders) = { Itoa(Len(trOut.bm.Body)) }

C1_Witness ==
    /\ trIn.op = "AnthropicRequestBody"
    /\ trOut.err = "nil"
    /\ ~trOut.bm.nil
    /\ Contains(trOut.bm.Body, "\"anthropic_version\":\"vertex-2023-10-16\"")
    /\ Contains(trOut.bm.Body, "say \\\"ok\\\"")
    /\ Len(trOut.bm.Body) >= 100

\* C2: calling Do twice on the same header mutation, the file unchanged in
\* between, leaves the :path value and the set of Authorization headers as
\* they were after the first call.
C2_DoTwiceSameHeaders ==
    (Len(doLog) >= 2 /\ doLog[1].file = doLog[2].file) =>
        /\ PathOf(doLog[2].after) = PathOf(doLog[1].after)
        /\ AuthorizationsOf(doLog[2].after) = AuthorizationsOf(doLog[1].after)

\* C3: when the STS exchange or the impersonation of a Rotate call fails, the
\* process keeps running, Rotate has returned an error that was logged, and
\* the secret store is as it was before the call.
C3_NetworkFailureIsReturned ==
    rot.failed \in {"sts", "imp"} =>
        /\ alive
        /\ rot.done
        /\ rot.res.err # "nil"
        /\ rot.logged # ""
        /\ secrets = rot.before

\* C4: every Do call sets Authorization to "Bearer " followed by the access
\* token the mounted credential file holds at the time of that call.
C4_DoUsesTokenOfFile ==
    \A i \in 1..Len(doLog) :
        LET after == doLog[i].after
        IN  /\ after[Len(after)].Key = "Authorization"
            /\ after[Len(after)].RawValue = "Bearer " \o ScanAccessToken(doLog[i].file, "")

\* C5: on a models-list processor, in any sequence of phase calls, only
\* ProcessRequestHeaders produces a response; every other phase call returns
\* the UnexpectedCall error and no response.
C5_OnlyRequestHeadersAnswers ==
    proc.kind = "models" =>
        \A i \in 1..Len(calls) :
            IF calls[i].method = "ProcessRequestHeaders"
            THEN calls[i].resp.kind = "immediate" /\ calls[i].err = NoErr
            ELSE calls[i].resp.kind = "nil" /\ calls[i].err.wraps = errUnexpectedCall

C5_Witness ==
    /\ proc.kind = "models"
    /\ Len(calls) >= 3
    /\ calls[1].method = "ProcessResponseBody"
    /\ calls[2].method = "ProcessRequestHeaders"
    /\ calls[3].method = "ProcessRequestBody"

C7_OIDCFailureStopsRotate ==
    rot.failed = "oidc" =>
        /\ rot.done
        /\ rot.res.err # "nil"
        /\ rot.res.t = ZeroTime
        /\ ~rot.sts.ran
        /\ ~rot.imp.ran
        /\ secrets = rot.before

C7_Witness ==
    /\ rot.failed = "oidc"
    /\ rot.done
    /\ ~rot.cancelled
    /\ rot.before[<<BspNamespace, "ai-eg-bsp-" \o BspName>>].exists

\* C8: when the secret exists and its expiration annotation parses to E,
\* GetPreRotationTime returns E minus the pre-rotation window, strictly
\* before E for a positive window; when the secret exists and the annotation
\* is missing or does not parse, it returns an error.
C8_PreRotationTime ==
    (prt.called /\ ~prt.apiFails /\ prt.seen.exists) =>
        LET ann == prt.seen.annotations
            parses == /\ "rotators/expiration-time" \in DOMAIN ann
                      /\ ann["rotators/expiration-time"].layout = "RFC3339"
        IN  IF parses
            THEN LET E == ann["rotators/expiration-time"].sec * TicksPerSecond
                 IN  /\ prt.res.err = "nil"
                     /\ prt.res.t = E - rotator.preRotationWindow
                     /\ rotator.preRotationWindow > 0 => prt.res.t < E
            ELSE prt.res.err # "nil"

C8_Witness ==
    /\ prt.called
    /\ ~prt.apiFails
    /\ prt.seen.exists
    /\ "rotators/expiration-time" \in DOMAIN prt.seen.annotations
    /\ prt.seen.annotations["rotators/expiration-time"].layout = "RFC3339"
    /\ prt.seen.data["gcpAccessToken"] \in Tokens
    /\ rotator.preRotationWindow > 0

\* C9: IsExpired(t) is true exactly when t is before the current time, with
\* no further buffer; asked about a pre-rotation time E - window it is false
\* as long as the clock has not passed E - window.
C9_IsExpiredIsBefore ==
    poll.called =>
        /\ poll.expired <=> poll.t < poll.at
        /\ poll.t > poll.at => ~poll.expired
        /\ (prt.called /\ prt.res.err = "nil" /\ poll.t = prt.res.t /\ poll.at <= prt.res.t)
              => ~poll.expired

C9_Witness ==
    /\ poll.called
    /\ ~poll.expired
    /\ prt.called
    /\ prt.seen.exists
    /\ prt.res.err = "nil"
    /\ poll.t = prt.res.t
    /\ rotator.preRotationWindow > 0
    /\ poll.t - rotator.preRotationWindow < poll.at

\* C10: the context passed to Rotate governs both network steps: a step that
\* runs after that context was cancelled observes the cancellation.
C10_CancelReachesNetworkSteps ==
    /\ (rot.sts.ran /\ rot.sts.ctxDone) => rot.sts.outcome = "cancelled"
    /\ (rot.imp.ran /\ rot.imp.ctxDone) => rot.imp.outcome = "cancelled"

\* C11: when Do runs on the header mutation a GCP translator's RequestBody
\* produced, whose :path is S = publishers/<publisher>/models/<model>:<method>,
\* the :path becomes
\* https://{region}-aiplatform.googleapis.com/v1/projects/{projectName}/locations/{region}/S,
\* one Authorization header is appended, and every other header entry (the
\* content-length among them) and the body mutation are as they were.
C11_DoPrefixesTranslatorPath ==
    \A publisher \in {"google", "anthropic"}, model \in ModelNames,
       method \in {"generateContent", "rawPredict"} :
        LET S == "publishers/" \o publisher \o "/models/" \o model \o ":" \o method
            before == doLog[1].before
            after  == doLog[1].after
        IN  ( /\ Len(doLog) >= 1
              /\ Len(before) = 2
              /\ before[1] = [Key |-> ":path", Value |-> "", RawValue |-> S]
              /\ before[2].Key = "content-length" ) =>
                /\ Len(after) = 3
                /\ after[1] = [Key |-> ":path", Value |-> "",
                               RawValue |-> "https://" \o handler.region
                                   \o "-aiplatform.googleapis.com/v1/projects/"
                                   \o handler.projectName \o "/locations/"
                                   \o handler.region \o "/" \o S]
                /\ after[2] = before[2]
                /\ after[3].Key = "Authorization"
                /\ doLog[1].bodyAfter = doLog[1].body

C11_Witness ==
    /\ Len(doLog) >= 1
    /\ handler.region = "europe-west4"
    /\ Len(doLog[1].before) = 2
    /\ doLog[1].before[1].RawValue = "publishers/anthropic/models/claude-3-5-haiku:rawPredict"
    /\ doLog[1].after[1].RawValue =
          "https://europe-west4-aiplatform.googleapis.com/v1/projects/proj-a/locations/europe-west4/publishers/anthropic/models/claude-3-5-haiku:rawPredict"
    /\ doLog[1].after[2] = RawHeader("content-length", "18")
    /\ doLog[1].bodyAfter = [nil |-> FALSE, Body |-> "{\"max_tokens\":100}"]

\* The message list of the Gemini request at hand and what toGeminiContents
\* makes of it.
GeminiMessages == trIn.openAIReq.Messages
GeminiContents == toGeminiContents(GeminiMessages, << >>, NilPtr, << >>, << >>)

\* The positions of a sequence whose element has the given role.
AssistantMessages == { i \in 1..Len(GeminiMessages) : GeminiMessages[i].Type = "assistant" }
ModelContents ==
    { i \in 1..Len(GeminiContents.contents) : GeminiContents.contents[i].Role = "model" }

\* The j-th smallest member of a set of positions; 0 for j = 0 and len + 1
\* past the last one.
NthOf(S, j, len) ==
    IF j = 0 THEN 0
    ELSE IF j > Cardinality(S) THEN len + 1
    ELSE CHOOSE i \in S : Cardinality({ x \in S : x <= i }) = j

\* The messages after the j-th assistant message and before the next one, and
\* the contents after the j-th model content and before the next one.
MessageRun(j) ==
    SubSeq(GeminiMessages,
           NthOf(AssistantMessages, j, Len(GeminiMessages)) + 1,
           NthOf(AssistantMessages, j + 1, Len(GeminiMessages)) - 1)
ContentRun(j) ==
    SubSeq(GeminiContents.contents,
           NthOf(ModelContents, j, Len(GeminiContents.contents)) + 1,
           NthOf(ModelContents, j + 1, Len(GeminiContents.contents)) - 1)

IsToolMessage(m) == m.Type = "tool"
IsFunctionResponse(part) == part.FunctionResponse # NilPtr

\* C12: in every accepted message list, the tool messages lying between one
\* assistant message and the next (or the end) are the function-response
\* parts of one single user content; so an assistant message with k tool
\* calls followed by its k tool messages is followed, in contents, by a user
\* content with exactly k function-response parts.
C12_ToolMessagesShareOneContent ==
    (trIn.op = "GeminiRequestBody" /\ GeminiContents.err = "nil") =>
        \A j \in 0..Cardinality(AssistantMessages) :
            LET tools == SelectSeq(MessageRun(j), IsToolMessage)
                run   == ContentRun(j)
            IN  Len(tools) > 0 =>
                    /\ Len(run) = 1
                    /\ run[1].Role = "user"
                    /\ LET responses == SelectSeq(run[1].Parts, IsFunctionResponse)
                       IN  /\ Len(responses) = Len(tools)
                           /\ \A i \in 1..Len(tools) :
                                 responses[i].FunctionResponse[1].Response = tools[i].Text

\* An assistant message with two tool calls, then its two tool messages.
C12_Witness ==
    /\ trIn.op = "GeminiRequestBody"
    /\ trOut.err = "nil"
    /\ Len(GeminiMessages) = 3
    /\ Len(GeminiMessages[1].ToolCalls) = 2
    /\ GeminiMessages[2].ToolCallID = "call_1"
    /\ GeminiMessages[3].ToolCallID = "call_2"
    /\ Len(GeminiContents.contents) = 2
    /\ Len(GeminiContents.contents[2].Parts) = 2
    /\ Contains(trOut.bm.Body,
          "{\"parts\":[{\"functionResponse\":{\"name\":\"get_weather\",\"response\":{\"output\":\"sunny\"}}},{\"functionResponse\":{\"name\":\"get_time\",\"response\":{\"output\":\"noon\"}}}],\"role\":\"user\"}")

\* What a user or tool message puts into contents, and what a part holds.
IsInstruction(m) == m.Type \in {"system", "developer"} /\ m.Text # ""
GivesUserPart(m) == m.Type = "tool" \/ (m.Type = "user" /\ m.Text # "")
\* What the parts of an array content put into contents: a text its text, an
\* image its URL unless that is empty.
RECURSIVE ContentPartLabels(_)
ContentPartLabels(parts) ==
    IF Len(parts) = 0 THEN << >>
    ELSE (IF Head(parts).kind = "text" THEN << <<"text", Head(parts).value>> >>
          ELSE IF Head(parts).value = "" THEN << >>
          ELSE << <<"image", Head(parts).value>> >>)
         \o ContentPartLabels(Tail(parts))
MessageLabel(m) == IF m.Type = "tool" THEN <<"response", m.Text>> ELSE <<"text", m.Text>>
\* What the messages of a run put into its user content, in order.
RECURSIVE RunLabels(_)
RunLabels(msgs) ==
    IF Len(msgs) = 0 THEN << >>
    ELSE (IF Head(msgs).Type = "user" /\ Head(msgs).Parts # NilPtr
          THEN ContentPartLabels(Head(msgs).Parts[1])
          ELSE IF GivesUserPart(Head(msgs)) THEN << MessageLabel(Head(msgs)) >>
          ELSE << >>)
         \o RunLabels(Tail(msgs))
PartLabel(part) ==
    IF part.FunctionResponse # NilPtr
    THEN <<"response", part.FunctionResponse[1].Response>>
    ELSE IF part.FunctionCall # NilPtr
    THEN <<"call", part.FunctionCall[1].Name>>
    ELSE IF part.FileData # NilPtr
    THEN <<"image", part.FileData[1].FileURI>>
    ELSE IF part.InlineData # NilPtr
    THEN <<"image", "data:" \o part.InlineData[1].MIMEType \o ";base64," \o part.InlineData[1].Data>>
    ELSE <<"text", part.Text>>
LabelsOf(seq, Label(_)) == [i \in 1..Len(seq) |-> Label(seq[i])]

\* C13: for every accepted message list, system and developer messages make
\* up systemInstruction and nothing of contents; every assistant message
\* gives exactly one model content, in input order; every maximal run of user
\* and tool messages between assistant messages gives at most one user
\* content, holding their parts in input order; so contents never holds two
\* adjacent user contents nor a user content without parts.
C13_ContentsFollowMessageRuns ==
    (trIn.op = "GeminiRequestBody" /\ GeminiContents.err = "nil") =>
        LET contents == GeminiContents.contents
            instructions == SelectSeq(GeminiMessages, IsInstruction)
            n == Cardinality(AssistantMessages)
        IN  /\ IF Len(instructions) = 0
               THEN GeminiContents.systemInstruction = NilPtr
               ELSE LabelsOf(GeminiContents.systemInstruction[1].Parts, PartLabel)
                        = LabelsOf(instructions, MessageLabel)
            /\ \A i \in 1..Len(contents) : contents[i].Role \in {"user", "model"}
            /\ Cardinality(ModelContents) = n
            /\ \A j \in 1..n :
                  LET msg == GeminiMessages[NthOf(AssistantMessages, j, Len(GeminiMessages))]
                      c   == contents[NthOf(ModelContents, j, Len(contents))]
                  IN  LabelsOf(c.Parts, PartLabel)
                          = [i \in 1..Len(msg.ToolCalls) |-> <<"call", msg.ToolCalls[i].Name>>]
                            \o (IF msg.Text = "" THEN << >> ELSE << <<"text", msg.Text>> >>)
            /\ \A j \in 0..n :
                  LET expected == RunLabels(MessageRun(j))
                      run == ContentRun(j)
                  IN  IF Len(expected) = 0
                      THEN Len(run) = 0
                      ELSE /\ Len(run) = 1
                           /\ LabelsOf(run[1].Parts, PartLabel) = expected
            /\ \A i \in 1..(Len(contents) - 1) :
                  ~(contents[i].Role = "user" /\ contents[i + 1].Role = "user")
            /\ \A i \in 1..Len(contents) :
                  contents[i].Role = "user" => Len(contents[i].Parts) > 0

\* A user message, a tool message and a user message again: one user content.
C13_Witness ==
    /\ trIn.op = "GeminiRequestBody"
    /\ trOut.err = "nil"
    /\ Len(GeminiMessages) = 3
    /\ GeminiMessages[1].Type = "user"
    /\ GeminiMessages[2].Type = "tool"
    /\ GeminiMessages[3].Type = "user"
    /\ Len(GeminiContents.contents) = 1
    /\ Len(GeminiContents.contents[1].Parts) = 3
    /\ Contains(trOut.bm.Body, "\"contents\":[{\"parts\":[{\"text\":\"hi\"},{\"functionResponse\":{\"response\":{\"output\":")

\* A system message, a user message and an assistant message.
C13_WitnessSystem ==
    /\ trIn.op = "GeminiRequestBody"
    /\ trOut.err = "nil"
    /\ Len(GeminiMessages) = 3
    /\ GeminiMessages[1].Type = "system"
    /\ GeminiMessages[2].Type = "user"
    /\ GeminiMessages[3].Type = "assistant"
    /\ Len(GeminiContents.contents) = 2
    /\ GeminiContents.systemInstruction # NilPtr

\* C14: ResponseError of the Anthropic translator never fails: for any
\* response headers and any error body, JSON or not, it returns no error and
\* header and body mutations that carry the canonical error envelope, of type
\* "error" with an error type, a message and the status code.
C14_ResponseErrorNeverFails ==
    trIn.op = "AnthropicResponseError" =>
        /\ trOut.err = "nil"
        /\ ~trOut.hm.nil
        /\ ~trOut.bm.nil
        /\ Contains(trOut.bm.Body, "{\"type\":\"error\",\"error\":{\"type\":\"")
        /\ Contains(trOut.bm.Body, "\"message\":\"")
        /\ Contains(trOut.bm.Body,
                    "\"code\":\"" \o HeaderOf(trIn.respHeaders, statusHeaderName) \o "\"}}")

\* C15 as stated: every chat request to the GCP Anthropic translator with
\* stream=true is rejected with the fixed error whose message contains
\* "streaming is not yet supported", and with no header or body mutation,
\* whatever the other fields of the request are.
C15_StreamAlwaysFixedError ==
    (trIn.op = "AnthropicRequestBody" /\ trIn.openAIReq.Stream) =>
        /\ Contains(trOut.err, "streaming is not yet supported")
        /\ trOut.hm.nil
        /\ trOut.bm.nil

\* C15, amended: every chat request to the GCP Anthropic translator with
\* stream=true is rejected, with no header or body mutation; the error is the
\* fixed "streaming is not yet supported" error exactly when the same request
\* without stream is accepted, and otherwise it is the error that request
\* gets without stream.
C15_StreamRejected ==
    (trIn.op = "AnthropicRequestBody" /\ trIn.openAIReq.Stream) =>
        LET buffered == AnthropicRequestBody([trIn.openAIReq EXCEPT !.Stream = FALSE])
        IN  /\ trOut.err # "nil"
            /\ trOut.hm.nil
            /\ trOut.bm.nil
            /\ IF buffered.err = "nil"
               THEN trOut.err = "streaming is not yet supported for GCP Anthropic translation"
               ELSE trOut.err = buffered.err
                    /\ ~Contains(trOut.err, "streaming is not yet supported")

C15_Witness ==
    /\ trIn.op = "AnthropicRequestBody"
    /\ trIn.openAIReq.Stream
    /\ trIn.openAIReq.Temperature = Ptr(7)
    /\ Len(trIn.openAIReq.Messages) = 2
    /\ trOut.err = "streaming is not yet supported for GCP Anthropic translation"
    /\ trOut.bm.nil

\* The temperatures above 1.0 the requests carry, in tenths, as %.2f prints them.
TwoDecimals(t) == IF t = 12 THEN "1.20" ELSE IF t = 15 THEN "1.50" ELSE "?"

\* C16 as stated: a request whose temperature is greater than 1.0 is rejected
\* with an error whose message contains "temperature <value with two
\* decimals> is not supported by Anthropic" and yields no header or body
\* mutation, so no successful output carries a temperature above 1.0.
C16_HighTemperatureError ==
    (/\ trIn.op = "AnthropicRequestBody"
     /\ trIn.openAIReq.Temperature # NilPtr
     /\ trIn.openAIReq.Temperature[1] > 10) =>
        /\ Contains(trOut.err, "temperature " \o TwoDecimals(trIn.openAIReq.Temperature[1])
                                   \o " is not supported by Anthropic")
        /\ trOut.hm.nil
        /\ trOut.bm.nil

\* C16, amended: a request whose temperature is greater than 1.0 is rejected
\* and yields no header or body mutation, so no successful output carries a
\* temperature above 1.0; the error message contains "temperature <value with
\* two decimals> is not supported by Anthropic" when the messages and the
\* tools of the request are accepted, and is the error of their translation
\* otherwise.
C16_HighTemperatureRejected ==
    (/\ trIn.op = "AnthropicRequestBody"
     /\ trIn.openAIReq.Temperature # NilPtr
     /\ trIn.openAIReq.Temperature[1] > 10) =>
        LET plain == AnthropicRequestBody([trIn.openAIReq EXCEPT !.Temperature = NilPtr,
                                                                 !.Stream = FALSE])
        IN  /\ trOut.err # "nil"
            /\ trOut.hm.nil
            /\ trOut.bm.nil
            /\ IF plain.err = "nil"
               THEN trOut.err = "temperature " \o TwoDecimals(trIn.openAIReq.Temperature[1])
                        \o " is not supported by Anthropic (must be between 0.0 and 1.0)"
               ELSE trOut.err = plain.err /\ ~Contains(trOut.err, "temperature")

C16_Witness ==
    /\ trIn.op = "AnthropicRequestBody"
    /\ trIn.openAIReq.Temperature = Ptr(12)
    /\ Len(trIn.openAIReq.Tools) = 2
    /\ trOut.err = "temperature 1.20 is not supported by Anthropic (must be between 0.0 and 1.0)"
    /\ trOut.bm.nil

\* C17: the GCP Anthropic request always carries max_tokens: 100 when both
\* max_tokens and max_completion_tokens are absent, max_completion_tokens when
\* it is present, max_tokens otherwise; and a request is accepted or rejected
\* as it would be with both fields present, so their absence causes no error.
C17_MaxTokensAlwaysEmitted ==
    trIn.op = "AnthropicRequestBody" =>
        LET req == trIn.openAIReq
            expected == IF req.MaxCompletionTokens # NilPtr THEN req.MaxCompletionTokens[1]
                        ELSE IF req.MaxTokens # NilPtr THEN req.MaxTokens[1]
                        ELSE 100
            withBoth == AnthropicRequestBody([req EXCEPT !.MaxTokens = Ptr(7),
                                                         !.MaxCompletionTokens = Ptr(1024)])
            member == "{\"max_tokens\":" \o Itoa(expected) \o ","
        IN  /\ trOut.err = withBoth.err
            /\ trOut.err = "nil" =>
                  /\ Len(trOut.bm.Body) > Len(member)
                  /\ SubSeq(trOut.bm.Body, 1, Len(member)) = member

C17_Witness ==
    /\ trIn.op = "AnthropicRequestBody"
    /\ trIn.openAIReq.MaxTokens = NilPtr
    /\ trIn.openAIReq.MaxCompletionTokens = NilPtr
    /\ trOut.err = "nil"
    /\ Contains(trOut.bm.Body, "{\"max_tokens\":100,\"messages\":[")

\* max_completion_tokens wins over max_tokens when both are present.
C17_WitnessBoth ==
    /\ trIn.op = "AnthropicRequestBody"
    /\ trIn.openAIReq.MaxTokens = Ptr(7)
    /\ trIn.openAIReq.MaxCompletionTokens = Ptr(1024)
    /\ trOut.err = "nil"
    /\ Contains(trOut.bm.Body, "{\"max_tokens\":1024,")

CanonicalFinishReason(stopReason) ==
    IF stopReason \in {"end_turn", "stop_sequence", "pause_turn"} THEN "stop"
    ELSE IF stopReason = "max_tokens" THEN "length"
    ELSE IF stopReason = "tool_use" THEN "tool_calls"
    ELSE IF stopReason = "refusal" THEN "content_filter"
    ELSE ""

\* C19: when ResponseBody of the Anthropic translator translates a message,
\* the finish reason is stop for end_turn, stop_sequence and pause_turn, length
\* for max_tokens, tool_calls for tool_use and content_filter for refusal; for
\* any other stop reason ResponseBody returns an error and neither a header
\* nor a body mutation.
C19_StopReasonMapping ==
    (/\ trIn.op = "AnthropicResponseBody"
     /\ HeaderOf(trIn.respHeaders, statusHeaderName) \in {"", "200"}
     /\ trIn.body.decoded.ok
     /\ trIn.body.decoded.kind = "message") =>
        LET stopReason == trIn.body.decoded.StopReason
            expected == CanonicalFinishReason(stopReason)
        IN  IF expected = ""
            THEN /\ trOut.err # "nil"
                 /\ trOut.hm.nil
                 /\ trOut.bm.nil
            ELSE /\ ~Contains(trOut.err, "stop reason")
                 /\ trOut.err = "nil" =>
                       Contains(trOut.bm.Body, "\"finish_reason\":\"" \o expected \o "\",")
                 /\ trIn.body.decoded.Role = "assistant" => trOut.err = "nil"

C19_Witness ==
    /\ trIn.op = "AnthropicResponseBody"
    /\ trIn.body.decoded.ok
    /\ trIn.body.decoded.kind = "message"
    /\ trIn.body.decoded.StopReason = "refusal"
    /\ trOut.err = "nil"
    /\ Contains(trOut.bm.Body, "\"finish_reason\":\"content_filter\"")

\* An unknown stop reason is an error.
C19_WitnessUnknown ==
    /\ trIn.op = "AnthropicResponseBody"
    /\ HeaderOf(trIn.respHeaders, statusHeaderName) = "200"
    /\ trIn.body.decoded.ok
    /\ trIn.body.decoded.kind = "message"
    /\ trIn.body.decoded.StopReason = "bogus"
    /\ trOut.err = "received invalid stop reason bogus"
    /\ trOut.bm.nil

\* The tool_choice object of an emitted body, "" when it has none; a tool
\* choice object holds no nested object.
EmittedToolChoice ==
    LET body == trOut.bm.Body
        key  == "\"tool_choice\":"
        starts == { i \in 1..(Len(body) - Len(key)) : SubSeq(body, i, i + Len(key) - 1) = key }
    IN  IF starts = {} THEN ""
        ELSE LET from == (CHOOSE i \in starts : TRUE) + Len(key)
                 to == CHOOSE j \in from..Len(body) :
                          /\ SubSeq(body, j, j) = "}"
                          /\ \A k \in from..(j - 1) : SubSeq(body, k, k) # "}"
             IN  SubSeq(body, from, to)

\* C20: for every chat request the GCP Anthropic translator accepts, the
\* emitted tool choice follows tool_choice: "auto" gives type auto, "required"
\* and "any" give type any, "none" gives type none, {type: function, name: X}
\* gives type tool with name X; and whenever parallel_tool_calls is false the
\* emitted tool choice carries disable_parallel_tool_use = true.
C20_ToolChoiceMapping ==
    (trIn.op = "AnthropicRequestBody" /\ trOut.err = "nil") =>
        LET choice == trIn.openAIReq.ToolChoice
            expectedType ==
                IF choice.kind = "string" /\ choice.String = "auto" THEN "auto"
                ELSE IF choice.kind = "string" /\ choice.String \in {"required", "any"} THEN "any"
                ELSE IF choice.kind = "string" /\ choice.String = "none" THEN "none"
                ELSE IF choice.kind = "ToolChoice" /\ choice.Type = "function" /\ choice.Name # ""
                THEN "tool"
                ELSE ""
        IN  /\ expectedType # "" =>
                  Contains(EmittedToolChoice, "\"type\":\"" \o expectedType \o "\"")
            /\ expectedType = "tool" =>
                  Contains(EmittedToolChoice, "\"name\":\"" \o choice.Name \o "\"")
            /\ (EmittedToolChoice # "" /\ trIn.openAIReq.ParallelToolCalls = Ptr(FALSE)) =>
                  Contains(EmittedToolChoice, "\"disable_parallel_tool_use\":true")


\* The messages of the request the Anthropic translator is working on, and
\* what openAIToAnthropicMessages makes of them.
AnthropicInput ==
    IF trIn.op = "AnthropicRequestBody" THEN trIn.openAIReq.Messages ELSE << >>

AnthropicTranslation == openAIToAnthropicMessages(AnthropicInput, << >>, << >>)

IsSystemPrompt(m) == m.Type \in {"system", "developer"}

IsConversation(m) == m.Type \in {"user", "assistant", "tool"}

\* The entry of messages is the one the input message msg has to produce.
EntryOf(msg, entry) ==
    /\ msg.Type = "user" =>
          /\ entry.Role = "user"
          /\ entry.Content = IF msg.Text = "" THEN << >>
                             ELSE << ContentBlock("text", msg.Text) >>
    /\ msg.Type = "assistant" =>
          /\ entry.Role = "assistant"
          /\ LET texts == SelectSeq(entry.Content, LAMBDA b : b.type = "text")
                 uses == SelectSeq(entry.Content, LAMBDA b : b.type = "tool_use")
             IN  /\ entry.Content = texts \o uses
                 /\ Len(texts) = (IF msg.Text = "" THEN 0 ELSE 1)
                 /\ \A i \in 1..Len(texts) : texts[i].text = msg.Text
                 /\ Len(uses) = Len(msg.ToolCalls)
                 /\ \A i \in 1..Len(uses) :
                       /\ uses[i].id = msg.ToolCalls[i].ID
                       /\ uses[i].name = msg.ToolCalls[i].Name
    /\ msg.Type = "tool" =>
          /\ entry.Role = "user"
          /\ Len(entry.Content) = 1
          /\ entry.Content[1].type = "tool_result"
          /\ entry.Content[1].id = msg.ToolCallID
          /\ entry.Content[1].content = IF msg.Text = "" THEN << >>
                                        ELSE << ContentBlock("text", msg.Text) >>

\* C21: in the GCP Anthropic request translation the system and developer
\* messages give their texts to the system array in input order and nothing
\* to messages; every user, assistant and tool message gives exactly one
\* entry of messages, in input order, a tool message a user-role tool_result;
\* a message of any other role makes the translation fail.
C21_MessagesSplitByRole ==
    trIn.op = "AnthropicRequestBody" =>
        LET prompts == SelectSeq(AnthropicInput, IsSystemPrompt)
            turns == SelectSeq(AnthropicInput, IsConversation)
            t == AnthropicTranslation
        IN  /\ (\E i \in 1..Len(AnthropicInput) :
                   ~IsSystemPrompt(AnthropicInput[i]) /\ ~IsConversation(AnthropicInput[i]))
               => /\ t.err # "nil"
                  /\ trOut.err # "nil"
            /\ t.err = "nil" =>
                  /\ Len(t.system) = Len(prompts)
                  /\ \A i \in 1..Len(prompts) :
                        t.system[i] = [type |-> "text", text |-> prompts[i].Text]
                  /\ Len(t.messages) = Len(turns)
                  /\ \A i \in 1..Len(turns) : EntryOf(turns[i], t.messages[i])

\* A system message, an assistant message with a tool call and the tool's
\* answer have been translated: one system block and two messages.
C21_Witness ==
    /\ trIn.op = "AnthropicRequestBody"
    /\ trOut.err = "nil"
    /\ Len(AnthropicInput) = 3
    /\ AnthropicInput[1].Type = "system"
    /\ AnthropicInput[2].Type = "assistant"
    /\ Len(AnthropicInput[2].ToolCalls) = 1
    /\ AnthropicInput[3].Type = "tool"
    /\ Len(AnthropicTranslation.system) = 1
    /\ Len(AnthropicTranslation.messages) = 2

\* A message of role function has made the translation fail.
C21_WitnessOtherRole ==
    /\ trIn.op = "AnthropicRequestBody"
    /\ \E i \in 1..Len(AnthropicInput) : AnthropicInput[i].Type = "function"
    /\ trOut.err # "nil"


\* The JSON object of one declared model: its id, its creation time in Unix
\* seconds, the object "model" and its owner.
ModelEntry(id, created, owner) ==
    "{\"id\":\"" \o id \o "\",\"created\":" \o Itoa(created \div TicksPerSecond)
        \o ",\"object\":\"model\",\"owned_by\":\"" \o owner \o "\"}"

\* The entries of the first n models the processor was built with, in order.
RECURSIVE ModelEntries(_)
ModelEntries(n) ==
    IF n = 0 THEN ""
    ELSE ModelEntries(n - 1) \o (IF n = 1 THEN "" ELSE ",")
           \o ModelEntry(proc.models.Data[n].ID, proc.models.Data[n].Created,
                         proc.models.Data[n].OwnedBy)

\* The values of the content-type entries of a header mutation.
ContentTypesOf(hs) ==
    { hs[i].RawValue : i \in { j \in 1..Len(hs) : hs[j].Key = "content-type" } }

HasAudioPart(msg) ==
    /\ msg.Type = "user"
    /\ msg.Parts # NilPtr
    /\ \E k \in 1..Len(msg.Parts[1]) : msg.Parts[1][k].kind = "input_audio"

\* C23: if any user message of a chat request contains an audio part, the
\* GCP Gemini translator's RequestBody returns an error and neither a header
\* nor a body mutation, wherever that part is and whatever the other
\* messages are.
C23_AudioPartRejected ==
    (/\ trIn.op = "GeminiRequestBody"
     /\ \E i \in 1..Len(trIn.openAIReq.Messages) : HasAudioPart(trIn.openAIReq.Messages[i]))
    => /\ trOut.err # "nil"
       /\ trOut.hm = NilHeaderMutation
       /\ trOut.bm = NilBodyMutation

\* The audio part is the second part of the second message, after an
\* assistant message, and the request was rejected for it.
C23_Witness ==
    /\ trIn.op = "GeminiRequestBody"
    /\ Len(trIn.openAIReq.Messages) = 2
    /\ trIn.openAIReq.Messages[1].Type = "assistant"
    /\ HasAudioPart(trIn.openAIReq.Messages[2])
    /\ trIn.openAIReq.Messages[2].Parts[1][1].kind = "text"
    /\ Contains(trOut.err, "audio content not supported yet")
    /\ trOut.bm = NilBodyMutation

\* A request whose user messages have array contents without audio was
\* translated: an image URL became file data.
C23_WitnessNoAudio ==
    /\ trIn.op = "GeminiRequestBody"
    /\ trOut.err = "nil"
    /\ Contains(trOut.bm.Body, "\"fileData\":{\"fileUri\":\"https://example.com/cat.png\",\"mimeType\":\"image/png\"}")


\* The candidates of the response the Gemini translator is working on, the
\* positions of those that are not nil and the choices made of them.
GeminiCandidates ==
    IF trIn.op = "GeminiResponseBody"
    THEN DecodeGenerateContentResponse(trIn.body).Candidates
    ELSE << >>

CandidatePositions == { p \in 1..Len(GeminiCandidates) : GeminiCandidates[p] # NilPtr }

GeminiChoices ==
    IF trIn.op = "GeminiResponseBody"
    THEN geminiResponseToOpenAIMessage(DecodeGenerateContentResponse(trIn.body),
                                       trIn.uuids).Choices
    ELSE << >>

FinishReasonOf(reason) ==
    CASE reason = "STOP" -> "stop"
      [] reason = "MAX_TOKENS" -> "length"
      [] OTHER -> "content_filter"

\* C24: every choice of a translated Gemini response has the finish reason
\* its candidate's finish reason gives, whatever else the candidate holds:
\* stop for STOP, length for MAX_TOKENS, content_filter for every other value
\* and for none; and its index is the position, from 0, of its candidate in
\* the backend response.
C24_FinishReasonAndIndex ==
    (trIn.op = "GeminiResponseBody" /\ trOut.err = "nil") =>
        /\ Len(GeminiChoices) = Cardinality(CandidatePositions)
        /\ \A j \in 1..Len(GeminiChoices) :
              LET p == NthOf(CandidatePositions, j, Len(GeminiCandidates))
                  expected == FinishReasonOf(GeminiCandidates[p][1].FinishReason)
              IN  /\ GeminiChoices[j].Index = p - 1
                  /\ GeminiChoices[j].FinishReason = expected
                  /\ Contains(trOut.bm.Body,
                              "{\"finish_reason\":\"" \o expected \o "\",\"index\":"
                                  \o Itoa(p - 1) \o ",")

\* Three candidates, the first without a finish reason, the second nil, the
\* third cut at the token limit: choices 0 and 2.
C24_Witness ==
    /\ trIn.op = "GeminiResponseBody"
    /\ trOut.err = "nil"
    /\ Len(GeminiCandidates) = 3
    /\ GeminiCandidates[1] # NilPtr
    /\ GeminiCandidates[1][1].FinishReason = ""
    /\ GeminiCandidates[2] = NilPtr
    /\ Len(GeminiChoices) = 2
    /\ Contains(trOut.bm.Body, "{\"finish_reason\":\"content_filter\",\"index\":0,")
    /\ Contains(trOut.bm.Body, "{\"finish_reason\":\"length\",\"index\":2,")


\* The usage of the message the Anthropic translator was given.
BackendUsage == DecodeMessage(trIn.body).Usage

\* C25: for every successful Anthropic ResponseBody translation the reported
\* token usage has the backend's input_tokens as input, its output_tokens as
\* output and their sum as total, and the usage object of the translated
\* body carries the same three numbers; whenever ResponseBody returns an
\* error and no body mutation, the reported usage is zero.
C25_UsageIsBackendUsage ==
    trIn.op = "AnthropicResponseBody" =>
        /\ (trOut.err = "nil" /\ trIn.body.decoded.kind = "message"
            /\ Contains(trOut.bm.Body, "\"object\":\"chat.completion\"")) =>
              LET total == Add64(BackendUsage.InputTokens, BackendUsage.OutputTokens)
              IN  /\ ToInt64(trOut.tokenUsage.InputTokens) = BackendUsage.InputTokens
                  /\ ToInt64(trOut.tokenUsage.OutputTokens) = BackendUsage.OutputTokens
                  /\ ToInt64(trOut.tokenUsage.TotalTokens) = total
                  /\ Contains(trOut.bm.Body,
                         "\"usage\":{\"completion_tokens\":"
                             \o FormatInt64(BackendUsage.OutputTokens)
                             \o ",\"prompt_tokens\":" \o FormatInt64(BackendUsage.InputTokens)
                             \o ",\"total_tokens\":" \o FormatInt64(total) \o "}")
        /\ (trOut.err # "nil" /\ trOut.bm = NilBodyMutation) =>
              trOut.tokenUsage = LLMTokenUsage(0, 0, 0)


\* The scheduler's poll: IsExpired was asked about the time that
\* GetPreRotationTime had just returned without error.
PolledPreRotationTime ==
    /\ prt.called
    /\ prt.res.err = "nil"
    /\ poll.called
    /\ poll.t = prt.res.t

C26_Witness ==
    /\ ~rot.started
    /\ ~secrets[BspKey].exists
    /\ PolledPreRotationTime
    /\ ~prt.apiFails
    /\ prt.res.t = ZeroTime
    /\ poll.expired

DeclaredToolCallsBefore(i) ==
    UNION { { GeminiMessages[k].ToolCalls[c].ID : c \in 1..Len(GeminiMessages[k].ToolCalls) } :
            k \in { k2 \in 1..(i - 1) : GeminiMessages[k2].Type = "assistant" } }

OrphanToolMessages ==
    { i \in 1..Len(GeminiMessages) :
        /\ GeminiMessages[i].Type = "tool"
        /\ GeminiMessages[i].ToolCallID \notin DeclaredToolCallsBefore(i) }

\* C30: the Gemini request translation emits no function-response part
\* with an empty function name, and a tool message whose tool_call_id is
\* declared by no earlier assistant tool call makes the translation fail.
C30_ToolResponsesAreNamed ==
    trIn.op = "GeminiRequestBody" =>
        /\ GeminiContents.err = "nil" =>
              \A c \in 1..Len(GeminiContents.contents) :
                  \A q \in 1..Len(GeminiContents.contents[c].Parts) :
                      LET part == GeminiContents.contents[c].Parts[q]
                      IN  part.FunctionResponse # NilPtr => part.FunctionResponse[1].Name # ""
        /\ OrphanToolMessages # {} => trOut.err # "nil"


\* The route of the last Reconcile, the filter configuration in the
\* ConfigMap and the rules of the HTTPRoute.
ReconciledRoute == sync.route
GeneratedConfig == kube.configMap[1]
GeneratedRules  == kube.httpRoute[1].Rules
Reconciled      == sync.done /\ sync.err = "nil"

UnreachableRule ==
    HTTPRouteRule(Ptr("unreachable"), << >>, << HTTPRouteMatch(<< >>, Ptr("/")) >>, << >>)

\* C27: after a successful reconcile of a route with n rules the filter
\* configuration has n rules; rule i of the HTTPRoute matches the
\* selected-route header against '<route name>-rule-<i>', the name of filter
\* rule i, and has the backends of filter rule i in their order; the
\* HTTPRoute has one more rule, the rule 'unreachable' of path '/', exactly
\* when n > 0.
C27_RulesOfRouteAndFilterAgree ==
    Reconciled =>
        LET n == Len(ReconciledRoute.Rules)
        IN  /\ kube.configMap # NilPtr
            /\ kube.httpRoute # NilPtr
            /\ Len(GeneratedConfig.Rules) = n
            /\ Len(GeneratedRules) = IF n > 0 THEN n + 1 ELSE 0
            /\ n > 0 => GeneratedRules[n + 1] = UnreachableRule
            /\ \A i \in 1..n :
                  LET refs == ReconciledRoute.Rules[i].BackendRefs
                  IN  /\ GeneratedConfig.Rules[i].Name
                            = ReconciledRoute.Name \o "-rule-" \o Itoa(i - 1)
                      /\ GeneratedRules[i].Name = NilPtr
                      /\ GeneratedRules[i].Matches
                            = << HTTPRouteMatch(<< [Name |-> "x-ai-eg-selected-route",
                                                    Value |-> GeneratedConfig.Rules[i].Name] >>,
                                                NilPtr) >>
                      /\ Len(GeneratedConfig.Rules[i].Backends) = Len(refs)
                      /\ Len(GeneratedRules[i].BackendRefs) = Len(refs)
                      /\ \A j \in 1..Len(refs) :
                            /\ GeneratedConfig.Rules[i].Backends[j].Name
                                  = refs[j].Name \o "." \o ReconciledRoute.Namespace
                            /\ GeneratedRules[i].BackendRefs[j].BackendObjectReference
                                  = kube.backends[refs[j].Name].BackendRef

\* A route of two rules, the second with the backends orange and apple, was
\* reconciled: three rules in the HTTPRoute, two in the filter.
C27_Witness ==
    /\ Reconciled
    /\ Len(ReconciledRoute.Rules) = 2
    /\ Len(ReconciledRoute.Rules[2].BackendRefs) = 2
    /\ Len(GeneratedRules) = 3
    /\ GeneratedConfig.Rules[2].Name = "myroute-rule-1"
    /\ GeneratedRules[2].BackendRefs[1].BackendObjectReference = "orange-svc"
    /\ GeneratedConfig.Rules[2].Backends[2].Name = "apple.default"
    /\ GeneratedConfig.Rules[2].Backends[2].Auth # NilPtr

\* A route without rules was reconciled: no rule in the HTTPRoute.
C27_WitnessNoRules ==
    /\ Reconciled
    /\ Len(ReconciledRoute.Rules) = 0
    /\ kube.httpRoute = Ptr([Rules |-> << >>])
    /\ GeneratedConfig.Rules = << >>

\* C28: every kind of policy for which backendSecurityPolicyVolumes builds
\* a secret volume is accepted by bspToFilterAPIAuth, so a Reconcile of a
\* route whose secrets can be mounted does not fail with 'invalid backend
\* security type'.
C28_PolicyTypesConsistent ==
    /\ (sync.done /\ kube.policies[PolicyName].exists) =>
          (backendSecurityPolicyVolumes(kube, NoFault, <<1, 1>>, PolicyName, "rule0-backref0-pol").err = "nil"
             => bspToFilterAPIAuth(kube, NoFault, <<1, 1>>, PolicyName, "rule0-backref0-pol").err = "nil")
    /\ (/\ sync.done
        /\ mountBackendSecurityPolicySecrets(kube, NoFault, NewPodSpec(sync.route), sync.route).err = "nil")
       => ~Contains(sync.err, "invalid backend security type")

\* C29: when mounting the secrets fails in syncExtProcDeployment, the
\* function returns an error and has neither created nor updated the
\* Deployment.
C29_MountFailureStopsDeployment ==
    (sync.done /\ sync.deploy.called /\ sync.deploy.mountErr # "nil")
    => /\ sync.deploy.err # "nil"
       /\ ~sync.deploy.wrote

====
